---- MODULE Spec2Model ----
(***************************************************************************)
(* Tick-to-bar replay core of momentum-stock-replay:                       *)
(*   packages/replay-engine/src/TickAggregator.ts                          *)
(*   packages/replay-engine/src/ReplayEngine.ts                            *)
(*   packages/replay-engine/src/events.ts                                  *)
(* and, of the application around it, the order book of                    *)
(*   app/src/hooks/useOrderBook.js                                         *)
(* and the decoders of the two binary session formats in                   *)
(*   app/src/utils/api.js                                                  *)
(*                                                                         *)
(* Time is counted in whole units of 0.001 s of replay time, so that the   *)
(* 0.001 s threshold of processPlaybackTick is one unit; timestamps,       *)
(* prices and volumes are non-negative integers.  A JavaScript null or     *)
(* undefined number is written -1, a null timer handle 0.                  *)
(***************************************************************************)
EXTENDS Integers, Sequences, FiniteSets, TLC

VARIABLES
    input,             \* the array the caller handed to the last load(), as handed
    ticks,             \* ReplayEngine.ticks (sorted on load)
    currentTickIndex,  \* ReplayEngine.currentTickIndex
    options,           \* ReplayEngine.options (availableSpeeds, barInterval)
    state,             \* ReplayEngine.state (ReplayState)
    playbackTimer,     \* ReplayEngine.playbackTimer (0 = null)
    lastBarTime,       \* ReplayEngine.lastBarTime (-1 = null)
    aggregator,        \* ReplayEngine.aggregator (a TickAggregator)
    timers,            \* interval timers alive in the host (setInterval ids)
    subscribed,        \* whether handlers are registered with on() (EventEmitter.listeners)
    emitted,           \* handler and option-callback invocations made by the last call
    caught,            \* errors of handlers that emit caught during the last call
                       \* (console.error, events.ts line 52): the events they threw on
    thrown,            \* the error the last call raised to its caller, "none" if it returned
    reaction,          \* what the second handler does with a tick event: "none",
                       \* or a call of pause() or stop() on the engine
    faulty,            \* the callback of the load options that throws whenever it
                       \* is called: "none", "onTick", "onBar" or "onStateChange"
    tock,              \* parity of the number of timer firings counted so far
    events,            \* tick/bar/ended events emitted since the cursor was last set
    passStart,         \* the cursor value when it was last set (not ++)
    last,              \* the last call made on the engine and the status before it
    ta,                \* a stand-alone TickAggregator
    fed,               \* the addTick calls made on ta since it was created or reset:
                       \* each tick and the bar returned for it
    taCall,            \* the last call made on ta and the error it threw, if any
    exchangeState,     \* useOrderBook: publisher id -> the entry stored for it
    bookCall,          \* the last call made on the order book
    returned,          \* what getOrderBook returned, if it was the last call
    buffer,            \* the decompressed session file handed to the decoder
    parsed,            \* what the decoder made of it: the rows, or the error thrown
    provider,          \* SessionDataProvider: its callbacks and the onBar closure
                       \* it handed to the engine
    barCalls,          \* the calls of the callbacks made during the last call
    watch              \* the callback of the subscription in force, and whether
                       \* the next bar is the first since loadSession

vars == <<input, ticks, currentTickIndex, options, state, playbackTimer, lastBarTime,
          aggregator, timers, subscribed, emitted, caught, thrown, reaction,
          faulty, tock, events, passStart, last, ta, fed, taCall,
          exchangeState, bookCall, returned, buffer, parsed,
          provider, barCalls, watch>>

engineVars == <<input, ticks, currentTickIndex, options, state, playbackTimer,
                lastBarTime, aggregator, timers, subscribed, emitted, caught,
                thrown, reaction, faulty, tock, events, passStart, last>>

aggVars == <<ta, fed, taCall>>

bookVars == <<exchangeState, bookCall, returned>>

wireVars == <<buffer, parsed>>

provVars == <<provider, barCalls, watch>>

-----------------------------------------------------------------------------
(* Bounds of the model *)

MaxTicks == 3          \* longest tick array handed to load()
MaxElapsed == 2        \* largest wall-clock time (ms) between two timer firings
MaxTimers == 2         \* most interval timers the host is let to hold
MaxFed == 3            \* most ticks added to the stand-alone aggregator
MaxSnapshots == 2      \* longest array of snapshots handed to updateOrderBook()
MaxRows == 2           \* most rows or samples in a session file
MaxEvents == 4         \* longest run of events followed when a callback throws

TimeStamps == {0, 2, 4}            \* tick timestamps handed to load()
Prices == {1, 2}
Volumes == {1}
BarIntervals == {3}
SpeedLists == {<<1, 2>>}
SeekTimes == {-1, 1, 2, 3, 5}
Percents == {-50, 50, 150}
StepBars == {0, 1}
SpeedArgs == {1, 2, 3}

DEFAULT_SPEEDS == <<1, 2, 5, 10, 25, 50, 100>>
DEFAULT_BAR_INTERVAL == 60000      \* 60 s

NULL == -1             \* null / undefined number
NoTimer == 0           \* playbackTimer = null
THRESHOLD == 1         \* 0.001 s, ReplayEngine.ts line 360

Tick == [timestamp : TimeStamps, price : Prices, volume : Volumes]

\* ticks and intervals for the stand-alone aggregator; volume -1 is a missing volume
AggIntervals == {2, 3}
SetIntervalArgs == {-3, 0, 2, 3}   \* the arguments of setInterval
AggTick == [timestamp : {0, 2, 3}, price : Prices, volume : {NULL, 2}]

RECURSIVE SeqsUpTo(_, _)
SeqsUpTo(S, n) ==
    IF n = 0 THEN {<<>>}
    ELSE LET shorter == SeqsUpTo(S, n - 1)
         IN shorter \cup {Append(s, x) : s \in {t \in shorter : Len(t) = n - 1}, x \in S}

TickArrays == SeqsUpTo(Tick, MaxTicks)

Min(a, b) == IF a < b THEN a ELSE b
Max(a, b) == IF a > b THEN a ELSE b
Abs(a) == IF a < 0 THEN -a ELSE a

\* the element of a set of one element.  Only({F(v) : v \in {x}}) is F(x) with
\* x worked out once, however often F reads it
Only(S) == CHOOSE y \in S : TRUE

-----------------------------------------------------------------------------
(* TickAggregator.ts *)

\* new TickAggregator(intervalSeconds), intervalSeconds > 0
NewAggregator(intervalSeconds) ==
    [intervalSeconds |-> intervalSeconds, bars |-> {}, currentBarTime |-> NULL]

\* mutant of getBarTime: Math.round in place of Math.floor
getBarTimeRounded(agg, timestamp) ==
    ((2 * timestamp + agg.intervalSeconds) \div (2 * agg.intervalSeconds))
        * agg.intervalSeconds

getBarTime(agg, timestamp) ==
    (timestamp \div agg.intervalSeconds) * agg.intervalSeconds

HasBar(agg, time) == \E b \in agg.bars : b.time = time

\* bars.get(time); used only where HasBar holds
getBar(agg, time) == CHOOSE b \in agg.bars : b.time = time

\* tick.volume ?? 0
VolumeOrZero(v) == IF v = NULL THEN 0 ELSE v

\* mutant of addTick: an existing bar's close is not updated
addTickKeepsClose(agg, tick) ==
    LET barTime == getBarTime(agg, tick.timestamp)
        bar == IF ~HasBar(agg, barTime)
               THEN [time |-> barTime, open |-> tick.price, high |-> tick.price,
                     low |-> tick.price, close |-> tick.price,
                     volume |-> VolumeOrZero(tick.volume)]
               ELSE LET old == getBar(agg, barTime)
                    IN [old EXCEPT !.high = Max(old.high, tick.price),
                                   !.low = Min(old.low, tick.price),
                                   !.volume = VolumeOrZero(old.volume)
                                              + VolumeOrZero(tick.volume)]
    IN [agg |-> [agg EXCEPT !.currentBarTime = barTime,
                            !.bars = {b \in agg.bars : b.time # barTime} \cup {bar}],
        bar |-> bar]

\* mutant of addTick: an existing bar's high is not raised
addTickKeepsHigh(agg, tick) ==
    LET barTime == getBarTime(agg, tick.timestamp)
        bar == IF ~HasBar(agg, barTime)
               THEN [time |-> barTime, open |-> tick.price, high |-> tick.price,
                     low |-> tick.price, close |-> tick.price,
                     volume |-> VolumeOrZero(tick.volume)]
               ELSE LET old == getBar(agg, barTime)
                    IN [old EXCEPT !.low = Min(old.low, tick.price),
                                   !.close = tick.price,
                                   !.volume = VolumeOrZero(old.volume)
                                              + VolumeOrZero(tick.volume)]
    IN [agg |-> [agg EXCEPT !.currentBarTime = barTime,
                            !.bars = {b \in agg.bars : b.time # barTime} \cup {bar}],
        bar |-> bar]

\* addTick: the aggregator after the call and the bar it returns
addTick(agg, tick) ==
    LET barTime == getBarTime(agg, tick.timestamp)
        bar == IF ~HasBar(agg, barTime)
               THEN [time |-> barTime, open |-> tick.price, high |-> tick.price,
                     low |-> tick.price, close |-> tick.price,
                     volume |-> VolumeOrZero(tick.volume)]
               ELSE LET old == getBar(agg, barTime)
                    IN [old EXCEPT !.high = Max(old.high, tick.price),
                                   !.low = Min(old.low, tick.price),
                                   !.close = tick.price,
                                   !.volume = VolumeOrZero(old.volume)
                                              + VolumeOrZero(tick.volume)]
    IN [agg |-> [agg EXCEPT !.currentBarTime = barTime,
                            !.bars = {b \in agg.bars : b.time # barTime} \cup {bar}],
        bar |-> bar]

RECURSIVE SortBars(_)
SortBars(bs) ==
    IF bs = {} THEN <<>>
    ELSE LET first == CHOOSE b \in bs : \A c \in bs : b.time <= c.time
         IN <<first>> \o SortBars(bs \ {first})

getAllBars(agg) == SortBars(agg.bars)

getBarsUntil(agg, timestamp) ==
    LET barTime == getBarTime(agg, timestamp)
    IN SelectSeq(getAllBars(agg), LAMBDA bar : bar.time <= barTime)

\* getCurrentBar: <<>> for null, <<bar>> for a bar
getCurrentBar(agg) ==
    IF agg.currentBarTime = NULL THEN <<>>
    ELSE IF HasBar(agg, agg.currentBarTime) THEN <<getBar(agg, agg.currentBarTime)>>
    ELSE <<>>

reset(agg) == [agg EXCEPT !.bars = {}, !.currentBarTime = NULL]

\* mutant of setInterval: the bars are kept
setIntervalKeepsBars(agg, intervalSeconds) ==
    IF intervalSeconds <= 0
    THEN [agg |-> agg, error |-> "Interval must be positive"]
    ELSE [agg |-> [agg EXCEPT !.intervalSeconds = intervalSeconds],
          error |-> "none"]

\* setInterval: the aggregator after the call and the error thrown
setInterval(agg, intervalSeconds) ==
    IF intervalSeconds <= 0
    THEN [agg |-> agg, error |-> "Interval must be positive"]
    ELSE [agg |-> reset([agg EXCEPT !.intervalSeconds = intervalSeconds]),
          error |-> "none"]

-----------------------------------------------------------------------------
(* events.ts and the engine's private helpers.  The engine is handled as   *)
(* one record w holding its fields and what its host holds for it (the     *)
(* interval timers, the subscribers' view); every method is an operator    *)
(* from the record before the call to the record after it.                 *)

\* the handlers registered with on() for every event, in the order of
\* registration: the first throws whenever it is invoked, the second returns
Handlers == <<"throws", "returns">>

\* one handler is invoked with the event
invoke(w, handler, ev) ==
    IF handler = "throws"
    THEN [w EXCEPT !.thrown = "Error"]
    ELSE [w EXCEPT !.emitted = Append(@, [ev EXCEPT !.via = "on"])]

\* mutant of forEach: the try/catch is around the whole loop, so the first
\* handler that throws ends the delivery
RECURSIVE forEachCatchOutside(_, _, _, _)
forEachCatchOutside(w, handlers, i, ev) ==
    IF i > Len(handlers) THEN w
    ELSE LET w1 == invoke(w, handlers[i], ev)
         IN IF w1.thrown # "none"
            THEN [w1 EXCEPT !.thrown = "none", !.caught = Append(@, ev)]
            ELSE forEachCatchOutside(w1, handlers, i + 1, ev)

\* handlers.forEach with the try/catch around each handler
RECURSIVE forEach(_, _, _, _)
forEach(w, handlers, i, ev) ==
    IF i > Len(handlers) THEN w
    ELSE LET w1 == invoke(w, handlers[i], ev)
             w2 == IF w1.thrown # "none"
                   THEN [w1 EXCEPT !.thrown = "none", !.caught = Append(@, ev)]
                   ELSE w1
         IN forEach(w2, handlers, i + 1, ev)

\* EventEmitter.emit: every registered handler is invoked
emit(w, ev) ==
    LET w1 == [w EXCEPT !.events = IF ev.type = "stateChange" THEN @
                                   ELSE Append(@, ev)]
    IN IF w.subscribed THEN forEach(w1, Handlers, 1, ev) ELSE w1

\* the callback of the options that is handed the events of a type
OptionOf(type) ==
    IF type = "tick" THEN "onTick"
    ELSE IF type = "bar" THEN "onBar"
    ELSE "onStateChange"

\* this.options.onTick / onBar / onStateChange: called with no try around it,
\* so what it throws goes up to the caller
callOption(w, ev) ==
    LET w1 == [w EXCEPT !.emitted = Append(@, [ev EXCEPT !.via = "option"])]
    IN IF faulty = OptionOf(ev.type) THEN [w1 EXCEPT !.thrown = "Error"] ELSE w1

emitStateChange(w) ==
    LET ev == [type |-> "stateChange", via |-> "", state |-> w.state]
    IN callOption(emit(w, ev), ev)

\* updateState(partial): partial is a record of some of status, currentTime, speed
updateState(w, partial) ==
    LET merged == [f \in DOMAIN w.state |->
                     IF f \in DOMAIN partial THEN partial[f] ELSE w.state[f]]
        w1 == [w EXCEPT !.state = merged]
    IN IF DOMAIN partial \cap {"status", "currentTime", "speed"} # {}
       THEN emitStateChange(w1)
       ELSE w1

\* setInterval hands out a handle no live timer has
FreshTimer(w) == CHOOSE id \in 1 .. (Cardinality(w.timers) + 1) : id \notin w.timers

startPlayback(w) ==
    LET id == FreshTimer(w)
    IN [w EXCEPT !.timers = @ \cup {id}, !.playbackTimer = id]

\* mutant of stopPlayback: the handle is forgotten without clearInterval
stopPlaybackNoClear(w) ==
    IF w.playbackTimer # NoTimer
    THEN [w EXCEPT !.playbackTimer = NoTimer]
    ELSE w

stopPlayback(w) ==
    IF w.playbackTimer # NoTimer
    THEN [w EXCEPT !.timers = @ \ {w.playbackTimer}, !.playbackTimer = NoTimer]
    ELSE w

\* the cursor is set (not ++): a new run of emitted events starts here
SetCursor(w, index) ==
    [w EXCEPT !.currentTickIndex = index, !.passStart = index, !.events = <<>>]

\* mutant of pause: the timer is left running
pauseNoCancel(w) ==
    IF w.state.status # "playing" THEN w
    ELSE updateState(w, [status |-> "paused"])

\* mutant of pause: no early return when the status is not playing
pauseAnyStatus(w) ==
    updateState(stopPlayback(w), [status |-> "paused"])

pause(w) ==
    IF w.state.status # "playing" THEN w
    ELSE updateState(stopPlayback(w), [status |-> "paused"])

\* mutant of stop: the aggregator is not reset
stopNoReset(w) ==
    LET w1 == stopPlayback(w)
    IN IF Len(w1.ticks) > 0
       THEN LET w2 == SetCursor(w1, 0)
                w3 == [w2 EXCEPT !.lastBarTime = NULL]
            IN updateState(w3, [status |-> "idle",
                                currentTime |-> w3.state.startTime])
       ELSE updateState(w1, [status |-> "idle"])

\* mutant of stop: the cursor is left where it is
stopKeepsCursor(w) ==
    LET w1 == stopPlayback(w)
    IN IF Len(w1.ticks) > 0
       THEN LET w3 == [w1 EXCEPT !.aggregator = reset(@), !.lastBarTime = NULL]
            IN updateState(w3, [status |-> "idle",
                                currentTime |-> w3.state.startTime])
       ELSE updateState(w1, [status |-> "idle"])

stop(w) ==
    LET w1 == stopPlayback(w)
    IN IF Len(w1.ticks) > 0
       THEN LET w2 == SetCursor(w1, 0)
                w3 == [w2 EXCEPT !.aggregator = reset(@), !.lastBarTime = NULL]
            IN updateState(w3, [status |-> "idle",
                                currentTime |-> w3.state.startTime])
       ELSE updateState(w1, [status |-> "idle"])

\* what the tick handler registered last does before it returns: nothing, or a
\* call of pause() or stop() on the engine; the delivery of the tick to the
\* handlers is over when that call returns
handlerCallsBack(w) ==
    IF reaction = "none" \/ ~w.subscribed THEN w
    ELSE LET w1 == IF reaction = "pause" THEN pause(w) ELSE stop(w)
         IN IF w1.thrown # "none"
            THEN [w1 EXCEPT !.thrown = "none",
                            !.caught = Append(@, [type |-> "tick", via |-> ""])]
            ELSE w1

\* mutant of processTick: the tick reaches options.onTick only, emit('tick') is left out
processTickNoEmit(w, tick) ==
    LET previousBarTime == w.lastBarTime
        added == addTick(w.aggregator, tick)
        currentBarTime == added.bar.time
        w1 == [w EXCEPT !.aggregator = added.agg]
        tickEv == [type |-> "tick", via |-> "", tick |-> tick]
        w2 == callOption(w1, tickEv)
        w3 == IF previousBarTime # NULL /\ currentBarTime # previousBarTime
                 /\ HasBar(w2.aggregator, previousBarTime)
              THEN LET barEv == [type |-> "bar", via |-> "",
                                 bar |-> getBar(w2.aggregator, previousBarTime)]
                   IN callOption(emit(w2, barEv), barEv)
              ELSE w2
    IN [w3 EXCEPT !.lastBarTime = currentBarTime]

\* mutant of processTick: the bar event carries the bar the tick went into
processTickEmitsOpenBar(w, tick) ==
    LET previousBarTime == w.lastBarTime
        added == addTick(w.aggregator, tick)
        currentBarTime == added.bar.time
        w1 == [w EXCEPT !.aggregator = added.agg]
        tickEv == [type |-> "tick", via |-> "", tick |-> tick]
        w2 == callOption(emit(w1, tickEv), tickEv)
        w3 == IF previousBarTime # NULL /\ currentBarTime # previousBarTime
                 /\ HasBar(w2.aggregator, previousBarTime)
              THEN LET barEv == [type |-> "bar", via |-> "", bar |-> added.bar]
                   IN callOption(emit(w2, barEv), barEv)
              ELSE w2
    IN [w3 EXCEPT !.lastBarTime = currentBarTime]

\* mutant of processTick: a bar event after every tick but the first, whether
\* or not the tick opened a new bucket
processTickBarEveryTick(w, tick) ==
    LET previousBarTime == w.lastBarTime
        added == addTick(w.aggregator, tick)
        currentBarTime == added.bar.time
        w1 == [w EXCEPT !.aggregator = added.agg]
        tickEv == [type |-> "tick", via |-> "", tick |-> tick]
        w2 == callOption(emit(w1, tickEv), tickEv)
        w3 == IF previousBarTime # NULL /\ HasBar(w2.aggregator, previousBarTime)
              THEN LET barEv == [type |-> "bar", via |-> "",
                                 bar |-> getBar(w2.aggregator, previousBarTime)]
                   IN callOption(emit(w2, barEv), barEv)
              ELSE w2
    IN [w3 EXCEPT !.lastBarTime = currentBarTime]

processTick(w, tick) ==
    LET previousBarTime == w.lastBarTime
        added == addTick(w.aggregator, tick)
        currentBarTime == added.bar.time
        w1 == [w EXCEPT !.aggregator = added.agg]
        tickEv == [type |-> "tick", via |-> "", tick |-> tick]
        AfterBar(w2) ==
            IF previousBarTime # NULL /\ currentBarTime # previousBarTime
               /\ HasBar(w2.aggregator, previousBarTime)
            THEN LET barEv == [type |-> "bar", via |-> "",
                               bar |-> getBar(w2.aggregator, previousBarTime)]
                 IN callOption(emit(w2, barEv), barEv)
            ELSE w2
        Stored(w3) ==
            IF w3.thrown # "none" THEN w3
            ELSE [w3 EXCEPT !.lastBarTime = currentBarTime]
        AfterTick(w2) ==
            IF w2.thrown # "none" THEN w2
            ELSE Only({Stored(w3) : w3 \in {AfterBar(w2)}})
    IN Only({AfterTick(w2) :
                w2 \in {callOption(handlerCallsBack(emit(w1, tickEv)), tickEv)}})

\* the fields of the engine an iteration of the while loop reads
LoopFields(w) ==
    <<w.ticks, w.currentTickIndex, w.state, w.lastBarTime, w.aggregator,
      w.subscribed>>

\* the while loop of processPlaybackTick: the engine after it and ticksProcessed.
\* An iteration that leaves the engine as it found it (only a handler that
\* calls stop() can put the cursor back) is repeated for ever: the call never
\* returns.
RECURSIVE Drain(_, _, _)
Drain(w, targetTime, ticksProcessed) ==
    IF w.currentTickIndex < Len(w.ticks)
       /\ w.ticks[w.currentTickIndex + 1].timestamp <= targetTime
    THEN Only({LET w2 == [w1 EXCEPT !.currentTickIndex = @ + 1]
               IN IF w1.thrown # "none"
                  THEN [w |-> w1, ticksProcessed |-> ticksProcessed]
                  ELSE IF reaction # "none" /\ LoopFields(w2) = LoopFields(w)
                  THEN [w |-> [w2 EXCEPT !.thrown = "NoReturn"],
                        ticksProcessed |-> TRUE]
                  ELSE Drain(w2, targetTime, TRUE) :
               w1 \in {processTick(w, w.ticks[w.currentTickIndex + 1])}})
    ELSE [w |-> w, ticksProcessed |-> ticksProcessed]

\* mutant of processPlaybackTick: the timer is not cancelled at the end of the data
processPlaybackTickNoCancel(w, realTimeElapsed) ==
    LET simulatedTimeElapsed == realTimeElapsed * w.state.speed
        targetTime == w.state.currentTime + simulatedTimeElapsed
        drained == Drain(w, targetTime, FALSE)
        w1 == drained.w
        newTime == Min(targetTime, w1.state.endTime)
    IN IF w1.currentTickIndex >= Len(w1.ticks)
       THEN emit(updateState(w1, [currentTime |-> w1.state.endTime,
                                  status |-> "ended"]),
                 [type |-> "ended", via |-> ""])
       ELSE IF drained.ticksProcessed
               \/ Abs(newTime - w1.state.currentTime) > THRESHOLD
            THEN updateState(w1, [currentTime |-> newTime])
            ELSE w1

\* one firing of the interval timer, realTimeElapsed ms after the previous
\* firing (or after startPlayback)
processPlaybackTick(w, realTimeElapsed) ==
    LET simulatedTimeElapsed == realTimeElapsed * w.state.speed
        targetTime == w.state.currentTime + simulatedTimeElapsed
        drained == Drain(w, targetTime, FALSE)
        w1 == drained.w
        newTime == Min(targetTime, w1.state.endTime)
    IN IF w1.thrown # "none"
       THEN w1
       ELSE IF w1.currentTickIndex >= Len(w1.ticks)
       THEN LET w2 == updateState(stopPlayback(w1),
                                  [currentTime |-> w1.state.endTime,
                                   status |-> "ended"])
            IN IF w2.thrown # "none" THEN w2
               ELSE emit(w2, [type |-> "ended", via |-> ""])
       ELSE IF drained.ticksProcessed
               \/ Abs(newTime - w1.state.currentTime) > THRESHOLD
            THEN updateState(w1, [currentTime |-> newTime])
            ELSE w1

\* binary search for the first tick at or after the timestamp
RECURSIVE BinarySearch(_, _, _, _)
BinarySearch(tks, timestamp, left, right) ==
    IF left < right
    THEN LET mid == (left + right) \div 2
         IN IF tks[mid + 1].timestamp < timestamp
            THEN BinarySearch(tks, timestamp, mid + 1, right)
            ELSE BinarySearch(tks, timestamp, left, mid)
    ELSE left

\* mutant of findTickIndexForTime: <= in the comparison, the first tick after
\* the timestamp
RECURSIVE BinarySearchAfter(_, _, _, _)
BinarySearchAfter(tks, timestamp, left, right) ==
    IF left < right
    THEN LET mid == (left + right) \div 2
         IN IF tks[mid + 1].timestamp <= timestamp
            THEN BinarySearchAfter(tks, timestamp, mid + 1, right)
            ELSE BinarySearchAfter(tks, timestamp, left, mid)
    ELSE left

findTickIndexAfterTime(w, timestamp) ==
    IF Len(w.ticks) = 0 THEN 0
    ELSE BinarySearchAfter(w.ticks, timestamp, 0, Len(w.ticks))

findTickIndexForTime(w, timestamp) ==
    IF Len(w.ticks) = 0 THEN 0
    ELSE BinarySearch(w.ticks, timestamp, 0, Len(w.ticks))

\* the for loop of rebuildBarsToIndex
RECURSIVE Rebuild(_, _, _)
Rebuild(w, i, index) ==
    IF i < index /\ i < Len(w.ticks)
    THEN LET added == addTick(w.aggregator, w.ticks[i + 1])
         IN Rebuild([w EXCEPT !.aggregator = added.agg,
                              !.lastBarTime = added.bar.time], i + 1, index)
    ELSE w

\* mutant of rebuildBarsToIndex: the aggregator is not reset first
rebuildWithoutReset(w, index) == Rebuild(w, 0, index)

\* mutant of rebuildBarsToIndex: the loop runs to index inclusive
rebuildOneTooMany(w, index) ==
    Rebuild([w EXCEPT !.aggregator = reset(@), !.lastBarTime = NULL], 0, index + 1)

rebuildBarsToIndex(w, index) ==
    Rebuild([w EXCEPT !.aggregator = reset(@), !.lastBarTime = NULL], 0, index)

-----------------------------------------------------------------------------
(* ReplayEngine.ts: the public methods *)

\* [...ticks].sort((a, b) => a.timestamp - b.timestamp): a stable sort
InsertSorted(sorted, x) ==
    LET k == Cardinality({i \in 1 .. Len(sorted) : sorted[i].timestamp <= x.timestamp})
    IN SubSeq(sorted, 1, k) \o <<x>> \o SubSeq(sorted, k + 1, Len(sorted))

RECURSIVE SortFrom(_, _, _)
SortFrom(tks, i, sorted) ==
    IF i > Len(tks) THEN sorted
    ELSE SortFrom(tks, i + 1, InsertSorted(sorted, tks[i]))

\* mutant of the sort: the array is copied as it is
copyUnsorted(tks) == tks

\* mutant of the sort: ascending, but a tick goes before the ticks of its own
\* timestamp that came earlier in the array
InsertBeforeEqual(sorted, x) ==
    LET k == Cardinality({i \in 1 .. Len(sorted) : sorted[i].timestamp < x.timestamp})
    IN SubSeq(sorted, 1, k) \o <<x>> \o SubSeq(sorted, k + 1, Len(sorted))

RECURSIVE SortFromUnstable(_, _, _)
SortFromUnstable(tks, i, sorted) ==
    IF i > Len(tks) THEN sorted
    ELSE SortFromUnstable(tks, i + 1, InsertBeforeEqual(sorted, tks[i]))

sortUnstable(tks) == SortFromUnstable(tks, 1, <<>>)

sortByTimestamp(tks) == SortFrom(tks, 1, <<>>)

\* availableSpeeds[0] ?? 1
FirstSpeed(opts) ==
    IF Len(opts.availableSpeeds) > 0 THEN opts.availableSpeeds[1] ELSE 1

\* mutant of load: the running playback is not stopped
loadNoStop(w, tks, opts) ==
    LET sorted == sortByTimestamp(tks)
        w2 == SetCursor([w EXCEPT !.options = opts, !.ticks = sorted], 0)
        w3 == [w2 EXCEPT !.aggregator = NewAggregator(opts.barInterval),
                         !.lastBarTime = NULL]
        w4 == [w3 EXCEPT !.state =
                 IF Len(sorted) > 0
                 THEN [status |-> "idle",
                       currentTime |-> sorted[1].timestamp,
                       speed |-> FirstSpeed(opts),
                       startTime |-> sorted[1].timestamp,
                       endTime |-> sorted[Len(sorted)].timestamp]
                 ELSE [status |-> "idle", currentTime |-> 0,
                       speed |-> FirstSpeed(opts), startTime |-> 0, endTime |-> 0]]
    IN emitStateChange(w4)

load(w, tks, opts) ==
    LET sorted == sortByTimestamp(tks)
        w1 == stopPlayback(w)
        w2 == SetCursor([w1 EXCEPT !.options = opts, !.ticks = sorted], 0)
        w3 == [w2 EXCEPT !.aggregator = NewAggregator(opts.barInterval),
                         !.lastBarTime = NULL]
        w4 == [w3 EXCEPT !.state =
                 IF Len(sorted) > 0
                 THEN [status |-> "idle",
                       currentTime |-> sorted[1].timestamp,
                       speed |-> FirstSpeed(opts),
                       startTime |-> sorted[1].timestamp,
                       endTime |-> sorted[Len(sorted)].timestamp]
                 ELSE [status |-> "idle", currentTime |-> 0,
                       speed |-> FirstSpeed(opts), startTime |-> 0, endTime |-> 0]]
    IN emitStateChange(w4)

dispose(w) ==
    LET w1 == stopPlayback(w)
    IN [w1 EXCEPT !.subscribed = FALSE,
                  !.events = <<>>,
                  !.passStart = w.currentTickIndex,
                  !.ticks = <<>>,
                  !.aggregator = reset(@),
                  !.state = [status |-> "idle", currentTime |-> 0, speed |-> 1,
                             startTime |-> 0, endTime |-> 0]]

\* mutant of seekTo: the timestamp is not clamped
seekToUnclamped(w, timestamp) ==
    IF Len(w.ticks) = 0 THEN w
    ELSE LET clampedTime == timestamp
             w1 == SetCursor(w, findTickIndexForTime(w, clampedTime))
             w2 == rebuildBarsToIndex(w1, w1.currentTickIndex)
             wasPlaying == w2.state.status = "playing"
             w3 == updateState(w2,
                     [currentTime |-> clampedTime,
                      status |-> IF wasPlaying THEN "playing"
                                 ELSE IF w2.state.status = "ended" THEN "paused"
                                 ELSE w2.state.status])
         IN IF wasPlaying THEN startPlayback(stopPlayback(w3)) ELSE w3

\* mutant of seekTo: the running timer is not cancelled before the restart
seekToNoCancel(w, timestamp) ==
    IF Len(w.ticks) = 0 THEN w
    ELSE LET clampedTime == Max(w.state.startTime, Min(w.state.endTime, timestamp))
             w1 == SetCursor(w, findTickIndexForTime(w, clampedTime))
             w2 == rebuildBarsToIndex(w1, w1.currentTickIndex)
             wasPlaying == w2.state.status = "playing"
             w3 == updateState(w2,
                     [currentTime |-> clampedTime,
                      status |-> IF wasPlaying THEN "playing"
                                 ELSE IF w2.state.status = "ended" THEN "paused"
                                 ELSE w2.state.status])
         IN IF wasPlaying THEN startPlayback(w3) ELSE w3

\* mutant of seekTo: the status is set to paused whatever it was
seekToPauses(w, timestamp) ==
    IF Len(w.ticks) = 0 THEN w
    ELSE LET clampedTime == Max(w.state.startTime, Min(w.state.endTime, timestamp))
             w1 == SetCursor(w, findTickIndexForTime(w, clampedTime))
             w2 == rebuildBarsToIndex(w1, w1.currentTickIndex)
         IN updateState(stopPlayback(w2),
                        [currentTime |-> clampedTime, status |-> "paused"])

seekTo(w, timestamp) ==
    IF Len(w.ticks) = 0 THEN w
    ELSE LET clampedTime == Max(w.state.startTime, Min(w.state.endTime, timestamp))
             w1 == SetCursor(w, findTickIndexForTime(w, clampedTime))
             w2 == rebuildBarsToIndex(w1, w1.currentTickIndex)
             wasPlaying == w2.state.status = "playing"
             w3 == updateState(w2,
                     [currentTime |-> clampedTime,
                      status |-> IF wasPlaying THEN "playing"
                                 ELSE IF w2.state.status = "ended" THEN "paused"
                                 ELSE w2.state.status])
         IN IF wasPlaying /\ w3.thrown = "none"
            THEN startPlayback(stopPlayback(w3))
            ELSE w3

\* mutant of play: no early return when the status is already playing
playAgain(w) ==
    IF Len(w.ticks) = 0 THEN w
    ELSE LET w1 == IF w.state.status = "ended" THEN seekTo(w, w.state.startTime) ELSE w
         IN startPlayback(updateState(w1, [status |-> "playing"]))

\* mutant of play: no seek to the start when the status is ended
playNoRestart(w) ==
    IF Len(w.ticks) = 0 THEN w
    ELSE IF w.state.status = "playing" THEN w
    ELSE startPlayback(updateState(w, [status |-> "playing"]))

play(w) ==
    IF Len(w.ticks) = 0 THEN w
    ELSE LET w1 == IF w.state.status = "ended" THEN seekTo(w, w.state.startTime) ELSE w
             w2 == updateState(w1, [status |-> "playing"])
         IN IF w1.thrown # "none" \/ w1.state.status = "playing" THEN w1
            ELSE IF w2.thrown # "none" THEN w2
            ELSE startPlayback(w2)

\* percent is a whole number and the duration an even one wherever this is
\* applied with 0 < percent < 100 (percent = 50), so the division is exact
seekToPercent(w, percent) ==
    LET clampedPercent == Max(0, Min(100, percent))
        duration == w.state.endTime - w.state.startTime
        timestamp == w.state.startTime + (duration * clampedPercent) \div 100
    IN seekTo(w, timestamp)

stepForward(w, bars) ==
    IF Len(w.ticks) = 0 \/ bars <= 0 THEN w
    ELSE seekTo(w, w.state.currentTime + bars * w.aggregator.intervalSeconds)

stepBackward(w, bars) ==
    IF Len(w.ticks) = 0 \/ bars <= 0 THEN w
    ELSE seekTo(w, w.state.currentTime - bars * w.aggregator.intervalSeconds)

\* mutant of Closest: > in place of <, the speed farthest away wins
RECURSIVE ClosestReversed(_, _, _, _)
ClosestReversed(speeds, speed, i, prev) ==
    IF i > Len(speeds) THEN prev
    ELSE ClosestReversed(speeds, speed, i + 1,
                 IF Abs(speeds[i] - speed) > Abs(prev - speed) THEN speeds[i] ELSE prev)

\* availableSpeeds.reduce((prev, curr) => |curr - speed| < |prev - speed| ? curr : prev)
RECURSIVE Closest(_, _, _, _)
Closest(speeds, speed, i, prev) ==
    IF i > Len(speeds) THEN prev
    ELSE Closest(speeds, speed, i + 1,
                 IF Abs(speeds[i] - speed) < Abs(prev - speed) THEN speeds[i] ELSE prev)

Includes(speeds, speed) == \E i \in 1 .. Len(speeds) : speeds[i] = speed

\* mutant of setSpeed: the running timer is not cancelled before the restart
setSpeedNoCancel(w, speed) ==
    IF ~Includes(w.options.availableSpeeds, speed) /\ Len(w.options.availableSpeeds) = 0
    THEN [w EXCEPT !.thrown = "TypeError"]
    ELSE LET snapped == IF Includes(w.options.availableSpeeds, speed) THEN speed
                        ELSE Closest(w.options.availableSpeeds, speed, 2,
                                     w.options.availableSpeeds[1])
             wasPlaying == w.state.status = "playing"
             w1 == updateState(w, [speed |-> snapped])
         IN IF wasPlaying THEN startPlayback(w1) ELSE w1

\* reduce with no initial value starts from the first element, and raises a
\* TypeError on an empty array
setSpeed(w, speed) ==
    IF ~Includes(w.options.availableSpeeds, speed) /\ Len(w.options.availableSpeeds) = 0
    THEN [w EXCEPT !.thrown = "TypeError"]
    ELSE LET snapped == IF Includes(w.options.availableSpeeds, speed) THEN speed
                        ELSE Closest(w.options.availableSpeeds, speed, 2,
                                     w.options.availableSpeeds[1])
             wasPlaying == w.state.status = "playing"
             w1 == updateState(w, [speed |-> snapped])
         IN IF wasPlaying /\ w1.thrown = "none"
            THEN startPlayback(stopPlayback(w1))
            ELSE w1

-----------------------------------------------------------------------------
(* The state machine of one engine and its caller *)

\* the engine as a call finds it: nothing delivered yet by this call
Engine ==
    [ticks |-> ticks, currentTickIndex |-> currentTickIndex, options |-> options,
     state |-> state, playbackTimer |-> playbackTimer, lastBarTime |-> lastBarTime,
     aggregator |-> aggregator, timers |-> timers, subscribed |-> subscribed,
     emitted |-> <<>>, caught |-> <<>>, thrown |-> "none",
     events |-> events, passStart |-> passStart]

\* the engine is left as w by the call op(arg)
Commit(w, op, arg) ==
    /\ Cardinality(w.timers) <= MaxTimers
    /\ ticks' = w.ticks
    /\ currentTickIndex' = w.currentTickIndex
    /\ options' = w.options
    /\ state' = w.state
    /\ playbackTimer' = w.playbackTimer
    /\ lastBarTime' = w.lastBarTime
    /\ aggregator' = w.aggregator
    /\ timers' = w.timers
    /\ subscribed' = w.subscribed
    /\ emitted' = w.emitted
    /\ caught' = w.caught
    /\ thrown' = w.thrown
    /\ events' = w.events
    /\ passStart' = w.passStart
    /\ last' = [op |-> op, arg |-> arg, from |-> state.status]
    /\ UNCHANGED <<reaction, faulty>>

\* the call op(arg) returns, leaving the engine as w
Return(w, op, arg) ==
    /\ Commit(w, op, arg)
    /\ UNCHANGED <<aggVars, bookVars, wireVars, provVars>>
    /\ UNCHANGED <<tock, input>>

Options == [availableSpeeds : SpeedLists, barInterval : BarIntervals]

\* new ReplayEngine() and the subscribers registered with on()
Init ==
    /\ input = <<>>
    /\ ticks = <<>>
    /\ currentTickIndex = 0
    /\ options = [availableSpeeds |-> DEFAULT_SPEEDS, barInterval |-> DEFAULT_BAR_INTERVAL]
    /\ state = [status |-> "idle", currentTime |-> 0, speed |-> 1,
                startTime |-> 0, endTime |-> 0]
    /\ playbackTimer = NoTimer
    /\ lastBarTime = NULL
    /\ aggregator = NewAggregator(DEFAULT_BAR_INTERVAL)
    /\ timers = {}
    /\ subscribed = TRUE
    /\ emitted = <<>>
    /\ caught = <<>>
    /\ thrown = "none"
    /\ reaction = "none"
    /\ faulty = "none"
    /\ tock = 0
    /\ events = <<>>
    /\ passStart = 0
    /\ last = [op |-> "new", arg |-> NULL, from |-> "idle"]
    /\ ta = NewAggregator(DEFAULT_BAR_INTERVAL)
    /\ fed = <<>>
    /\ taCall = [op |-> "new", arg |-> DEFAULT_BAR_INTERVAL, error |-> "none"]
    /\ exchangeState = <<>>
    /\ bookCall = [op |-> "useOrderBook", arg |-> <<>>]
    /\ returned = [bids |-> <<>>, asks |-> <<>>]
    /\ buffer = [magic |-> <<>>, version |-> 0, initialTimestampUs |-> 0, deltas |-> <<>>]
    /\ parsed = [by |-> "none", error |-> "none", data |-> <<>>]
    /\ provider = [tickCache |-> {}, subscriptionCallback |-> "null",
                   currentUnsubscribe |-> FALSE, oakViewBarCallback |-> "null",
                   onBar |-> "none"]
    /\ barCalls = <<>>
    /\ watch = [subscriber |-> "null", firstBarDue |-> FALSE]

\* load(ticks, options) on an engine that holds no ticks: any array, any
\* options.  A disposed engine is not loaded again (spec 4.3: a programmer error).
Load ==
    /\ subscribed
    /\ ticks = <<>>
    /\ \E tks \in TickArrays, opts \in Options :
           Return(load(Engine, tks, opts), "load", tks)

\* load(ticks, options) on an engine that holds ticks, from any status: the
\* same data and options once more, or an empty array
Reload ==
    /\ ticks # <<>>
    /\ \E tks \in {ticks, <<>>} : Return(load(Engine, tks, options), "load", tks)

Dispose == Return(dispose(Engine), "dispose", NULL)

Play == Return(play(Engine), "play", NULL)

Pause == Return(pause(Engine), "pause", NULL)

Stop == Return(stop(Engine), "stop", NULL)

SeekTo == \E t \in SeekTimes : Return(seekTo(Engine, t), "seekTo", t)

SeekToPercent ==
    \E p \in Percents : Return(seekToPercent(Engine, p), "seekToPercent", p)

StepForward == \E n \in StepBars : Return(stepForward(Engine, n), "stepForward", n)

StepBackward == \E n \in StepBars : Return(stepBackward(Engine, n), "stepBackward", n)

SetSpeed == \E s \in SpeedArgs : Return(setSpeed(Engine, s), "setSpeed", s)

\* a live interval timer fires and runs processPlaybackTick
TimerFires ==
    \E id \in timers, realTimeElapsed \in 0 .. MaxElapsed :
        Return(processPlaybackTick(Engine, realTimeElapsed), "timer", realTimeElapsed)

Next ==
    \/ Load
    \/ Reload
    \/ Dispose
    \/ Play
    \/ Pause
    \/ Stop
    \/ SeekTo
    \/ SeekToPercent
    \/ StepForward
    \/ StepBackward
    \/ SetSpeed
    \/ TimerFires

Spec == Init /\ [][Next]_vars

-----------------------------------------------------------------------------
(* The engine loaded with any list of speeds, the empty one too, and its   *)
(* speed and navigation calls made with arguments in and out of range      *)

SpeedListsAny == {<<>>, <<1, 5, 10>>, <<10, 1, 5>>}
SpeedArgsAny == {0, 1, 3, 7, 8, 12}
OptionsAny == [availableSpeeds : SpeedListsAny, barInterval : BarIntervals]
PlainTick == [timestamp : TimeStamps, price : {1}, volume : Volumes]
PlainTickArrays == SeqsUpTo(PlainTick, MaxTicks - 1)

LoadAny ==
    /\ subscribed
    /\ ticks = <<>>
    /\ \E tks \in PlainTickArrays, opts \in OptionsAny :
           Return(load(Engine, tks, opts), "load", tks)

SetSpeedAny == \E s \in SpeedArgsAny : Return(setSpeed(Engine, s), "setSpeed", s)

NextSpeed ==
    \/ LoadAny
    \/ SetSpeedAny
    \/ Play
    \/ Pause
    \/ SeekTo
    \/ SeekToPercent
    \/ StepForward
    \/ StepBackward
    \/ TimerFires

SpecSpeed == Init /\ [][NextSpeed]_vars

-----------------------------------------------------------------------------
(* Playback left to run: after load and play the interval timer fires      *)
(* again and again, each time a positive number of ms after the last       *)

TimerFiresSteadily ==
    /\ \E id \in timers, realTimeElapsed \in 1 .. MaxElapsed :
           Commit(processPlaybackTick(Engine, realTimeElapsed), "timer", realTimeElapsed)
    /\ tock' = 1 - tock
    /\ UNCHANGED <<aggVars, bookVars, wireVars, provVars>>
    /\ UNCHANGED input

\* play() on an engine that is not playing
PlayFromRest ==
    /\ state.status # "playing"
    /\ Play

NextLive ==
    \/ LoadAny
    \/ PlayFromRest
    \/ TimerFiresSteadily

\* the steps of NextLive that change tock are the firings, and one is
\* possible whenever a timer is live
Firing ==
    /\ timers # {}
    /\ tock' = 1 - tock

\* setInterval keeps calling back until clearInterval
SpecLive == Init /\ [][NextLive]_vars /\ WF_tock(Firing)

-----------------------------------------------------------------------------
(* A subscriber whose tick handler calls pause() or stop() on the engine   *)

OnTick ==
    /\ last.op = "new"
    /\ reaction = "none"
    /\ reaction' \in {"pause", "stop"}
    /\ UNCHANGED <<input, ticks, currentTickIndex, options, state, playbackTimer,
                   lastBarTime, aggregator, timers, subscribed, emitted, caught,
                   thrown, faulty, tock, events, passStart, last, ta, fed, taCall>>
    /\ UNCHANGED <<bookVars, wireVars, provVars>>

\* the last call has returned: the one thread of the host is free
Returned == thrown # "NoReturn"

PlayWhenFree ==
    /\ Returned
    /\ Play

TimerFiresWhenFree ==
    /\ Returned
    /\ TimerFires

NextReentrant ==
    \/ OnTick
    \/ LoadAny
    \/ PlayWhenFree
    \/ TimerFiresWhenFree

SpecReentrant == Init /\ [][NextReentrant]_vars

-----------------------------------------------------------------------------
(* An engine loaded with options of which one callback throws on every call *)

\* the callbacks are chosen before the first load()
LoadOptions ==
    /\ last.op = "new"
    /\ faulty = "none"
    /\ faulty' \in {"onTick", "onBar", "onStateChange"}
    /\ UNCHANGED <<input, ticks, currentTickIndex, options, state, playbackTimer,
                   lastBarTime, aggregator, timers, subscribed, emitted, caught,
                   thrown, reaction, tock, events, passStart, last, ta, fed, taCall>>
    /\ UNCHANGED <<bookVars, wireVars, provVars>>

\* the firings are followed as long as the run of events is short
TimerFiresAgain ==
    /\ Len(events) < MaxEvents
    /\ TimerFires

NextFaulty ==
    \/ LoadOptions
    \/ LoadAny
    \/ Play
    \/ TimerFiresAgain

SpecFaulty == Init /\ [][NextFaulty]_vars

-----------------------------------------------------------------------------
(* The engine loaded with a bar interval narrow enough for the ticks to     *)
(* span three buckets, then played, paused and sought                      *)

NarrowInterval == 2
TickArraysAny == SeqsUpTo(PlainTick, MaxTicks)

LoadNarrow ==
    /\ subscribed
    /\ ticks = <<>>
    /\ \E tks \in TickArraysAny, speeds \in SpeedLists :
           Return(load(Engine, tks, [availableSpeeds |-> speeds,
                                     barInterval |-> NarrowInterval]),
                  "load", tks)

NextBars ==
    \/ LoadNarrow
    \/ Play
    \/ Pause
    \/ SeekTo
    \/ TimerFires

SpecBars == Init /\ [][NextBars]_vars

-----------------------------------------------------------------------------
(* One array loaded as the caller ordered it and played to the end         *)

LoadKept ==
    /\ subscribed
    /\ ticks = <<>>
    /\ \E tks \in TickArrays, opts \in Options :
           /\ Commit(load(Engine, tks, opts), "load", tks)
           /\ input' = tks
    /\ UNCHANGED <<aggVars, bookVars, wireVars, provVars>>
    /\ UNCHANGED tock

NextSame ==
    \/ LoadKept
    \/ Play
    \/ TimerFires

SpecSame == Init /\ [][NextSame]_vars

-----------------------------------------------------------------------------
(* SessionDataProvider.ts: the provider that hands the engine the cached    *)
(* ticks of a session and forwards the bars it completes to the chart's     *)
(* callback and to the subscriber.  currentInterval and currentSymbol are   *)
(* written and never read; they are left out.                               *)

Callbacks == {"cb1", "cb2"}        \* the callbacks handed to subscribe
Symbols == {"TEST", "NONE"}        \* "NONE" is a session the index does not hold
ProviderInterval == 2              \* the interval handed to subscribe and loadSession

\* the ticks convertToTickData makes of the file of session "TEST": volume 0
SessionTicks ==
    <<[timestamp |-> 0, price |-> 1, volume |-> 0],
      [timestamp |-> 2, price |-> 2, volume |-> 0],
      [timestamp |-> 4, price |-> 1, volume |-> 0]>>

\* this.tickCache.get(symbol) || []
cachedTicks(prov, symbol) ==
    IF symbol \in prov.tickCache THEN SessionTicks ELSE <<>>

\* fetchHistorical: the ticks of a session of the index are cached on first use
fetchHistorical(prov, symbol) ==
    IF symbol = "TEST" THEN [prov EXCEPT !.tickCache = @ \cup {symbol}] ELSE prov

\* the OHLCVBar the onBar closures make of the engine's bar
ohlcvBar(bar) ==
    [time |-> bar.time, open |-> bar.open, high |-> bar.high, low |-> bar.low,
     close |-> bar.close, volume |-> bar.volume]

\* one call of a callback of the provider: the arguments it is handed, and
\* whether no bar has gone to the chart's callback since the session was loaded
BarCall(to, bar, first) == [to |-> to, args |-> <<ohlcvBar(bar)>>, first |-> first]

\* the onBar closure the provider handed to the engine, called with a bar
onBar(prov, bar, first) ==
    IF prov.onBar = "subscribe"
    THEN IF prov.subscriptionCallback # "null"
         THEN <<BarCall(prov.subscriptionCallback, bar, first)>>
         ELSE <<>>
    ELSE IF prov.onBar = "loadSession"
    THEN (IF prov.oakViewBarCallback # "null"
          THEN <<BarCall(prov.oakViewBarCallback, bar, first)>>
          ELSE <<>>)
         \o (IF prov.subscriptionCallback # "null"
             THEN <<BarCall(prov.subscriptionCallback, bar, first)>>
             ELSE <<>>)
    ELSE <<>>

\* the bars the engine handed to options.onBar during a call, in order
OptionBars(evs) ==
    SelectSeq(evs, LAMBDA ev : ev.type = "bar" /\ ev.via = "option")

\* the calls of the provider's callbacks an engine call makes
RECURSIVE Deliver(_, _, _, _)
Deliver(prov, bars, i, first) ==
    IF i > Len(bars) THEN <<>>
    ELSE LET calls == onBar(prov, bars[i].bar, first)
         IN calls \o Deliver(prov, bars, i + 1,
                              first /\ \A k \in DOMAIN calls : calls[k].to # "chart")

unsubscribeInternal(w, prov) ==
    IF prov.currentUnsubscribe
    THEN [w |-> stop(w),
          prov |-> [prov EXCEPT !.subscriptionCallback = "null",
                                !.currentUnsubscribe = FALSE]]
    ELSE [w |-> w, prov |-> prov]

\* subscribe(symbol, interval, callback): the engine and the provider after
\* it, and the function it returns
subscribe(w, prov, symbol, intervalSeconds, callback) ==
    LET p1 == [prov EXCEPT !.subscriptionCallback = callback]
        u == unsubscribeInternal(w, p1)
        tks == cachedTicks(u.prov, symbol)
    IN IF Len(tks) = 0
       THEN [w |-> u.w, prov |-> u.prov, returns |-> "noop"]
       ELSE [w |-> load(u.w, tks, [availableSpeeds |-> DEFAULT_SPEEDS,
                                   barInterval |-> intervalSeconds]),
             prov |-> [u.prov EXCEPT !.onBar = "subscribe",
                                     !.currentUnsubscribe = TRUE],
             returns |-> "unsubscribe"]

\* loadSession(sessionId, intervalSeconds)
loadSession(w, prov, sessionId, intervalSeconds) ==
    LET p1 == IF sessionId \notin prov.tickCache
              THEN fetchHistorical(prov, sessionId)
              ELSE prov
        tks == cachedTicks(p1, sessionId)
    IN IF Len(tks) = 0
       THEN [w |-> [w EXCEPT !.thrown = "Error"], prov |-> p1]
       ELSE [w |-> load(w, tks, [availableSpeeds |-> DEFAULT_SPEEDS,
                                 barInterval |-> intervalSeconds]),
             prov |-> [p1 EXCEPT !.onBar = "loadSession"]]

\* a call on the provider returns: the engine is left as w, the provider as
\* prov, and the bars the engine completed have gone through the onBar closure
Provide(w, prov, wt, op, arg) ==
    LET calls == Deliver(provider, OptionBars(w.emitted), 1, watch.firstBarDue)
    IN /\ Commit(w, op, arg)
       /\ provider' = prov
       /\ barCalls' = calls
       /\ watch' = [wt EXCEPT !.firstBarDue =
                                  @ /\ \A k \in DOMAIN calls : calls[k].to # "chart"]
       /\ UNCHANGED <<aggVars, bookVars, wireVars>>
       /\ UNCHANGED <<tock, input>>

FetchHistorical ==
    \E symbol \in Symbols :
        /\ symbol \notin provider.tickCache
        /\ Provide(Engine, fetchHistorical(provider, symbol), watch,
                   "fetchHistorical", symbol)

SetBarCallback ==
    /\ provider.oakViewBarCallback = "null"
    /\ Provide(Engine, [provider EXCEPT !.oakViewBarCallback = "chart"], watch,
               "setBarCallback", "chart")

ClearBarCallback ==
    /\ provider.oakViewBarCallback # "null"
    /\ Provide(Engine, [provider EXCEPT !.oakViewBarCallback = "null"], watch,
               "clearBarCallback", NULL)

\* subscribe: the subscriber in force from now on is the callback, if the
\* symbol has cached ticks, and nobody otherwise
Subscribe ==
    \E symbol \in Symbols, callback \in Callbacks :
        LET r == subscribe(Engine, provider, symbol, ProviderInterval, callback)
        IN Provide(r.w, r.prov,
                   [watch EXCEPT !.subscriber = IF r.returns = "unsubscribe"
                                                THEN callback ELSE "null"],
                   "subscribe", <<symbol, callback>>)

\* the function the last subscribe returned is called while its subscription
\* is in force
Unsubscribe ==
    /\ provider.currentUnsubscribe
    /\ LET r == unsubscribeInternal(Engine, provider)
       IN Provide(r.w, r.prov, [watch EXCEPT !.subscriber = "null"],
                  "unsubscribe", NULL)

LoadSession ==
    \E sessionId \in Symbols :
        LET r == loadSession(Engine, provider, sessionId, ProviderInterval)
        IN Provide(r.w, r.prov,
                   [watch EXCEPT !.firstBarDue = @ \/ r.w.thrown = "none"],
                   "loadSession", sessionId)

ProviderPlay == Provide(play(Engine), provider, watch, "play", NULL)

ProviderPause == Provide(pause(Engine), provider, watch, "pause", NULL)

ProviderStop == Provide(stop(Engine), provider, watch, "stop", NULL)

\* a live interval timer fires and runs processPlaybackTick
ProviderTimerFires ==
    \E id \in timers, realTimeElapsed \in 0 .. MaxElapsed :
        Provide(processPlaybackTick(Engine, realTimeElapsed), provider, watch,
                "timer", realTimeElapsed)

NextProvider ==
    \/ FetchHistorical
    \/ SetBarCallback
    \/ ClearBarCallback
    \/ Subscribe
    \/ Unsubscribe
    \/ LoadSession
    \/ ProviderPlay
    \/ ProviderPause
    \/ ProviderStop
    \/ ProviderTimerFires

SpecProvider == Init /\ [][NextProvider]_vars

-----------------------------------------------------------------------------
(* A TickAggregator used on its own, fed ticks in any order *)

TaNew ==
    \E intervalSeconds \in AggIntervals :
        /\ ta' = NewAggregator(intervalSeconds)
        /\ fed' = <<>>
        /\ taCall' = [op |-> "new", arg |-> intervalSeconds, error |-> "none"]
        /\ UNCHANGED <<engineVars, bookVars, wireVars, provVars>>

TaAddTick ==
    /\ Len(fed) < MaxFed
    /\ \E tick \in AggTick :
           LET added == addTick(ta, tick)
           IN /\ ta' = added.agg
              /\ fed' = Append(fed, [tick |-> tick, bar |-> added.bar])
              /\ taCall' = [op |-> "addTick", arg |-> tick.timestamp, error |-> "none"]
    /\ UNCHANGED <<engineVars, bookVars, wireVars, provVars>>

TaReset ==
    /\ ta' = reset(ta)
    /\ fed' = <<>>
    /\ taCall' = [op |-> "reset", arg |-> NULL, error |-> "none"]
    /\ UNCHANGED <<engineVars, bookVars, wireVars, provVars>>

TaSetInterval ==
    \E intervalSeconds \in SetIntervalArgs :
        LET set == setInterval(ta, intervalSeconds)
        IN /\ ta' = set.agg
           /\ fed' = IF set.error = "none" THEN <<>> ELSE fed
           /\ taCall' = [op |-> "setInterval", arg |-> intervalSeconds,
                         error |-> set.error]
           /\ UNCHANGED <<engineVars, bookVars, wireVars, provVars>>

NextAgg ==
    \/ TaNew
    \/ TaAddTick
    \/ TaReset
    \/ TaSetInterval

SpecAgg == Init /\ [][NextAgg]_vars

-----------------------------------------------------------------------------
(* app/src/hooks/useOrderBook.js                                           *)
(*                                                                         *)
(* Prices are counted in units of 0.5 (10 is 20, 10.5 is 21) and sizes in  *)
(* whole units.  A snapshot arrives with its numbers as decimal strings;   *)
(* a field it lacks is absent from its record.  The time of the update     *)
(* that each entry also stores is read by none of the operations and is    *)
(* left out.                                                               *)

NaN == -2              \* what parseFloat makes of a missing field

Publishers == {1, 2}

\* the quotes a snapshot may carry; the last one lacks its bid price and
\* asks at price 0
Quotes ==
    {[bid_price |-> 20, bid_size |-> 100, ask_price |-> 21, ask_size |-> 50],
     [bid_price |-> 21, bid_size |-> 50, ask_price |-> 22, ask_size |-> 100],
     [bid_size |-> 100, ask_price |-> 0, ask_size |-> 100]}

Snapshots == {[publisher_id |-> p] @@ q : p \in Publishers, q \in Quotes}

\* the arguments of updateOrderBook: none at all, or one array of snapshots
UpdateArgs == {<<>>} \cup {<<exchanges>> : exchanges \in SeqsUpTo(Snapshots, MaxSnapshots)}

MinSizes == {0, 50, 100}

\* parseFloat(ex[field])
parseFloatOf(ex, field) == IF field \in DOMAIN ex THEN ex[field] ELSE NaN

\* a > b and a >= b of JavaScript numbers: false when either is NaN
Greater(a, b) == a # NaN /\ b # NaN /\ a > b
AtLeast(a, b) == a # NaN /\ b # NaN /\ a >= b

\* the entry stored for a snapshot
EntryOf(ex) ==
    [publisher_id |-> ex.publisher_id,
     bid_price |-> parseFloatOf(ex, "bid_price"),
     ask_price |-> parseFloatOf(ex, "ask_price"),
     bid_size |-> parseFloatOf(ex, "bid_size"),
     ask_size |-> parseFloatOf(ex, "ask_size")]

\* updated[key] = entry
Put(updated, key, entry) ==
    [k \in DOMAIN updated \cup {key} |-> IF k = key THEN entry ELSE updated[k]]

\* mutant of the loop body: a field the snapshot lacks keeps its stored value
PutMerged(updated, ex) ==
    LET key == ex.publisher_id
        entry == EntryOf(ex)
        merged == [f \in DOMAIN entry |->
                     IF entry[f] = NaN /\ key \in DOMAIN updated
                     THEN updated[key][f] ELSE entry[f]]
    IN Put(updated, key, merged)

\* the body of exchanges.forEach
PutSnapshot(updated, ex) == Put(updated, ex.publisher_id, EntryOf(ex))

RECURSIVE forEachSnapshot(_, _, _)
forEachSnapshot(updated, exchanges, i) ==
    IF i > Len(exchanges) THEN updated
    ELSE forEachSnapshot(PutSnapshot(updated, exchanges[i]), exchanges, i + 1)

\* mutant of updateOrderBook: the new state is built from an empty object
updateOrderBookFromEmpty(prev, args) ==
    IF args = <<>> \/ Len(args[1]) = 0
    THEN prev
    ELSE forEachSnapshot(<<>>, args[1], 1)

\* updateOrderBook(exchanges): the state setExchangeState installs
updateOrderBook(prev, args) ==
    IF args = <<>> \/ Len(args[1]) = 0
    THEN prev
    ELSE forEachSnapshot(prev, args[1], 1)

\* clearOrderBook()
clearOrderBook(prev) == <<>>

\* Object.values of an object with integer keys: in ascending order of the keys
RECURSIVE ObjectValues(_)
ObjectValues(obj) ==
    IF DOMAIN obj = {} THEN <<>>
    ELSE LET k == CHOOSE x \in DOMAIN obj : \A y \in DOMAIN obj : x <= y
             rest == [y \in DOMAIN obj \ {k} |-> obj[y]]
         IN <<obj[k]>> \o ObjectValues(rest)

\* Array.prototype.sort with the comparator (a, b) => sign * (a.price - b.price):
\* a stable insertion, x goes behind every element that does not compare after it
RECURSIVE InsertByPrice(_, _, _)
InsertByPrice(sorted, x, sign) ==
    IF sorted = <<>> THEN <<x>>
    ELSE IF sign * (Head(sorted).price - x.price) <= 0
         THEN <<Head(sorted)>> \o InsertByPrice(Tail(sorted), x, sign)
         ELSE <<x>> \o sorted

RECURSIVE sortByPrice(_, _, _, _)
sortByPrice(levels, i, sorted, sign) ==
    IF i > Len(levels) THEN sorted
    ELSE sortByPrice(levels, i + 1, InsertByPrice(sorted, levels[i], sign), sign)

\* .filter(...).map(...) of one side of the book
RECURSIVE Side(_, _, _, _)
Side(exchanges, i, side, minSize) ==
    IF i > Len(exchanges) THEN <<>>
    ELSE LET ex == exchanges[i]
             price == IF side = "bid" THEN ex.bid_price ELSE ex.ask_price
             size == IF side = "bid" THEN ex.bid_size ELSE ex.ask_size
             rest == Side(exchanges, i + 1, side, minSize)
         IN IF Greater(price, 0) /\ AtLeast(size, minSize)
            THEN <<[publisher_id |-> ex.publisher_id, price |-> price, size |-> size]>>
                 \o rest
            ELSE rest

\* mutant of getOrderBook: the bids are sorted like the asks
getOrderBookBidsAscending(exchangeStateNow, minSize) ==
    LET exchanges == ObjectValues(exchangeStateNow)
    IN [bids |-> sortByPrice(Side(exchanges, 1, "bid", minSize), 1, <<>>, 1),
        asks |-> sortByPrice(Side(exchanges, 1, "ask", minSize), 1, <<>>, 1)]

\* getOrderBook(minSize)
getOrderBook(exchangeStateNow, minSize) ==
    LET exchanges == ObjectValues(exchangeStateNow)
    IN [bids |-> sortByPrice(Side(exchanges, 1, "bid", minSize), 1, <<>>, -1),
        asks |-> sortByPrice(Side(exchanges, 1, "ask", minSize), 1, <<>>, 1)]

NoBook == [bids |-> <<>>, asks |-> <<>>]

UpdateOrderBook ==
    /\ \E args \in UpdateArgs :
           /\ exchangeState' = updateOrderBook(exchangeState, args)
           /\ bookCall' = [op |-> "updateOrderBook", arg |-> args]
    /\ returned' = NoBook
    /\ UNCHANGED <<engineVars, aggVars, wireVars, provVars>>

ClearOrderBook ==
    /\ exchangeState' = clearOrderBook(exchangeState)
    /\ bookCall' = [op |-> "clearOrderBook", arg |-> <<>>]
    /\ returned' = NoBook
    /\ UNCHANGED <<engineVars, aggVars, wireVars, provVars>>

GetOrderBook ==
    /\ \E minSize \in MinSizes :
           /\ returned' = getOrderBook(exchangeState, minSize)
           /\ bookCall' = [op |-> "getOrderBook", arg |-> <<minSize>>]
    /\ UNCHANGED exchangeState
    /\ UNCHANGED <<engineVars, aggVars, wireVars, provVars>>

NextBook ==
    \/ UpdateOrderBook
    \/ ClearOrderBook
    \/ GetOrderBook

SpecBook == Init /\ [][NextBook]_vars

-----------------------------------------------------------------------------
(* app/src/utils/api.js: the decoders of the two binary session formats    *)
(*                                                                         *)
(* A buffer is given by what its header and rows hold: the four bytes of   *)
(* the magic, the version, the initial timestamp in microseconds and, row  *)
(* by row, the time delta (microseconds in version 2, milliseconds in      *)
(* version 3).  The buffer is as long as its row count says; prices, sizes *)
(* and the publisher map, which no timestamp depends on, are left out.     *)
(* An ISO string of a Date is written as the Date's time value, a whole    *)
(* number of milliseconds.                                                 *)

TICK == <<84, 73, 67, 75>>         \* the bytes of 'TICK'

Magics == {TICK, <<84, 79, 67, 75>>}
Versions == {1, 2, 3}
InitialTimestamps == {5000, 5500}  \* microseconds
Deltas == {-1000, 0, 1000, 2500}

Buffers ==
    [magic : Magics, version : Versions, initialTimestampUs : InitialTimestamps,
     deltas : SeqsUpTo(Deltas, MaxRows)]

\* new TextDecoder().decode(magicBytes): one character for each ASCII byte
Char(byte) ==
    CASE byte = 84 -> "T" [] byte = 73 -> "I" [] byte = 67 -> "C"
      [] byte = 75 -> "K" [] byte = 79 -> "O" [] OTHER -> "?"

decode(bytes) == [i \in 1 .. Len(bytes) |-> Char(bytes[i])]

\* the time value of new Date(ms): the fraction of a millisecond is cut off
\* (ms is given in microseconds)
TimeValue(us) == IF us >= 0 THEN us \div 1000 ELSE -((-us) \div 1000)

\* the rows of version 2: each timestamp is the initial one plus the row's delta
RECURSIVE RowsV2(_, _)
RowsV2(buf, i) ==
    IF i > Len(buf.deltas) THEN <<>>
    ELSE LET deltaTimeUs == buf.deltas[i]
             absoluteTimestampUs == buf.initialTimestampUs + deltaTimeUs
         IN <<[timestamp |-> TimeValue(absoluteTimestampUs)]>> \o RowsV2(buf, i + 1)

parseBinaryDataV2(buf) ==
    LET magic == decode(buf.magic)
    IN IF magic # <<"T", "I", "C", "K">>
       THEN [by |-> "parseBinaryDataV2", error |-> "Error", data |-> <<>>]
       ELSE [by |-> "parseBinaryDataV2", error |-> "none", data |-> RowsV2(buf, 1)]

\* the samples of version 3: cumulativeTimestampMs (held here in
\* microseconds) grows by each sample's delta
RECURSIVE SamplesV3(_, _, _)
SamplesV3(buf, i, cumulativeTimestampUs) ==
    IF i > Len(buf.deltas) THEN <<>>
    ELSE LET timeDeltaMs == buf.deltas[i]
             cumulative == cumulativeTimestampUs + 1000 * timeDeltaMs
         IN <<[timestamp |-> TimeValue(cumulative),
               adjustedTimestampUs |-> cumulative]>>
            \o SamplesV3(buf, i + 1, cumulative)

\* the magic is decoded and not looked at again
parseBinaryDataV3(buf) ==
    LET magic == decode(buf.magic)
    IN [by |-> "parseBinaryDataV3", error |-> "none",
        data |-> SamplesV3(buf, 1, buf.initialTimestampUs)]

\* loadSessionData hands a buffer of version 3 to parseBinaryDataV3
ParseBinaryDataV3 ==
    /\ \E buf \in Buffers :
           /\ buf.version = 3
           /\ buffer' = buf
           /\ parsed' = parseBinaryDataV3(buf)
    /\ UNCHANGED <<engineVars, aggVars, bookVars, provVars>>

\* and a buffer of any other version to parseBinaryDataV2
ParseBinaryDataV2 ==
    /\ \E buf \in Buffers :
           /\ buf.version # 3
           /\ buffer' = buf
           /\ parsed' = parseBinaryDataV2(buf)
    /\ UNCHANGED <<engineVars, aggVars, bookVars, provVars>>

NextDecode ==
    \/ ParseBinaryDataV3
    \/ ParseBinaryDataV2

SpecDecode == Init /\ [][NextDecode]_vars

-----------------------------------------------------------------------------
(* What the properties below are stated with *)

Loaded == Len(ticks) > 0

\* the aggregator obtained by adding tks[i .. n] in order to agg
RECURSIVE FeedTicks(_, _, _, _)
FeedTicks(agg, tks, i, n) ==
    IF i > n THEN agg
    ELSE FeedTicks(addTick(agg, tks[i]).agg, tks, i + 1, n)

\* the bars of a fresh aggregator fed the first n ticks
BarsOfPrefix(tks, n, intervalSeconds) ==
    FeedTicks(NewAggregator(intervalSeconds), tks, 1, Min(n, Len(tks))).bars

Bucket(timestamp, intervalSeconds) == timestamp \div intervalSeconds

EventsOfType(evs, type) == SelectSeq(evs, LAMBDA ev : ev.type = type)

\* the ticks carried by the tick events of evs, in order
TickEvents(evs) ==
    LET sel == EventsOfType(evs, "tick")
    IN [i \in 1 .. Len(sel) |-> sel[i].tick]

DataEvents(evs) == SelectSeq(evs, LAMBDA ev : ev.type \in {"tick", "bar", "ended"})

Timestamps(tks) == {tks[i].timestamp : i \in 1 .. Len(tks)}

SeekOps == {"seekTo", "seekToPercent", "stepForward", "stepBackward"}

-----------------------------------------------------------------------------
(* C1: with ticks loaded, startTime <= currentTime <= endTime in every     *)
(* state reachable by load, play, pause, stop, seekTo, seekToPercent,      *)
(* stepForward, stepBackward, setSpeed and timer firings, also after a     *)
(* seekTo outside [startTime, endTime] or a seekToPercent outside [0, 100] *)
C1_TimeInRange ==
    /\ state.startTime <= state.currentTime
    /\ state.currentTime <= state.endTime

\* a seekTo beyond the last tick has been clamped to endTime
C1_Witness ==
    /\ Loaded
    /\ last.op = "seekTo"
    /\ last.arg > state.endTime
    /\ state.currentTime = state.endTime
    /\ state.startTime < state.endTime

(* C2, as claimed: for every T, also one at which a tick is stamped, the   *)
(* bars getBarsUntil(T) returns right after seekTo(T) equal the bars it    *)
(* returns after playing from startTime until currentTime is T             *)
BarsAfterSeek(T) == getBarsUntil(seekTo(Engine, T).aggregator, T)

PlayedFromStart ==
    /\ Loaded
    /\ passStart = 0
    /\ state.status \in {"playing", "paused", "ended"}

C2_SeekEqualsPlay_Claimed ==
    PlayedFromStart =>
        BarsAfterSeek(state.currentTime) = getBarsUntil(aggregator, state.currentTime)

(* C2, amended: the two agree for every T in [startTime, endTime] at which *)
(* no tick is stamped; a tick stamped exactly T is in the bars after       *)
(* playing to T and not in the bars after seekTo(T)                        *)
C2_SeekEqualsPlay ==
    (PlayedFromStart /\ state.currentTime \notin Timestamps(ticks)) =>
        BarsAfterSeek(state.currentTime) = getBarsUntil(aggregator, state.currentTime)

\* playback from the start has processed a tick and stands between two ticks
C2_Witness ==
    /\ PlayedFromStart
    /\ last.op = "timer"
    /\ currentTickIndex > 0
    /\ currentTickIndex < Len(ticks)
    /\ state.currentTime \notin Timestamps(ticks)
    /\ aggregator.bars # {}

(* C3: in a playback pass that starts at cursor 0 and has no seek, step,   *)
(* stop or load in it, the tick events emitted so far are exactly the      *)
(* ticks before the cursor, each once and in array order; at status ended  *)
(* they are the whole sorted tick array                                    *)
C3_TicksOnceInOrder ==
    (Loaded /\ passStart = 0) =>
        /\ TickEvents(events) = SubSeq(ticks, 1, currentTickIndex)
        /\ state.status = "ended" => TickEvents(events) = ticks

\* a pass from cursor 0 over three ticks, two of them with one timestamp, has ended
C3_Witness ==
    /\ passStart = 0
    /\ state.status = "ended"
    /\ Len(ticks) = 3
    /\ Cardinality(Timestamps(ticks)) = 2
    /\ TickEvents(events) = ticks

(* C4: at most one interval timer is alive at any time, and it is the one  *)
(* the engine holds in playbackTimer                                       *)
C4_OneTimer ==
    /\ Cardinality(timers) <= 1
    /\ timers = IF playbackTimer = NoTimer THEN {} ELSE {playbackTimer}

\* a seekTo made while playing has restarted the timer
C4_Witness ==
    /\ last.op = "seekTo"
    /\ last.from = "playing"
    /\ state.status = "playing"
    /\ Cardinality(timers) = 1

(* C5: between calls the aggregator's bars are the bars of a fresh         *)
(* aggregator of the configured interval fed ticks[0 .. cursor) in order;  *)
(* after playing to the end there is one bar per distinct bucket           *)
C5_BarsOfProcessedTicks ==
    /\ aggregator.bars = BarsOfPrefix(ticks, currentTickIndex, options.barInterval)
    /\ aggregator.intervalSeconds = options.barInterval
    /\ state.status = "ended" =>
           /\ Cardinality(aggregator.bars) =
                  Cardinality({Bucket(t, options.barInterval) : t \in Timestamps(ticks)})
           /\ \A b \in aggregator.bars :
                  LET inBar == {i \in 1 .. Len(ticks) :
                                  Bucket(ticks[i].timestamp, options.barInterval)
                                      * options.barInterval = b.time}
                  IN /\ inBar # {}
                     /\ b.open = ticks[CHOOSE i \in inBar : \A j \in inBar : i <= j].price
                     /\ b.close = ticks[CHOOSE i \in inBar : \A j \in inBar : j <= i].price

\* playback has ended over ticks of two buckets, the first bar built from two ticks
C5_Witness ==
    /\ state.status = "ended"
    /\ Len(ticks) = 3
    /\ Cardinality(aggregator.bars) = 2
    /\ \E b \in aggregator.bars : b.open # b.close /\ b.volume = 2

(* C6: after a non-empty run of addTick calls on a fresh or reset          *)
(* aggregator whose ticks all fall in one bucket, the bar returned by the  *)
(* last call has the first price as open, the last as close, the largest   *)
(* as high, the smallest as low, and the sum of the volumes as volume, a   *)
(* missing volume counting 0                                               *)
FedPrices == {fed[i].tick.price : i \in 1 .. Len(fed)}

RECURSIVE SumVolumes(_)
SumVolumes(n) ==
    IF n = 0 THEN 0
    ELSE SumVolumes(n - 1) + (IF fed[n].tick.volume = NULL THEN 0 ELSE fed[n].tick.volume)

FedInOneBucket ==
    /\ Len(fed) > 0
    /\ \A i \in 1 .. Len(fed) :
           Bucket(fed[i].tick.timestamp, ta.intervalSeconds)
               = Bucket(fed[1].tick.timestamp, ta.intervalSeconds)

C6_OneBucketOHLCV ==
    FedInOneBucket =>
        LET bar == fed[Len(fed)].bar
        IN /\ bar.open = fed[1].tick.price
           /\ bar.close = fed[Len(fed)].tick.price
           /\ bar.high \in FedPrices /\ \A p \in FedPrices : p <= bar.high
           /\ bar.low \in FedPrices /\ \A p \in FedPrices : bar.low <= p
           /\ bar.volume = SumVolumes(Len(fed))

\* three ticks of one bucket, the price going up and back, one volume missing
C6_Witness ==
    /\ FedInOneBucket
    /\ Len(fed) = 3
    /\ fed[1].tick.price < fed[2].tick.price
    /\ fed[3].tick.price < fed[2].tick.price
    /\ fed[2].tick.volume = NULL
    /\ fed[3].bar.volume = 4

(* C7: the bar addTick(tick) returns has time floor(timestamp / interval)  *)
(* * interval: a multiple of the interval with time <= timestamp < time +  *)
(* interval; two ticks get the same bar exactly if their buckets are the   *)
(* same, and the aggregator holds one bar per bucket fed                   *)
C7_BucketAlignment ==
    LET I == ta.intervalSeconds
    IN /\ \A i \in 1 .. Len(fed) :
              /\ fed[i].bar.time % I = 0
              /\ fed[i].bar.time <= fed[i].tick.timestamp
              /\ fed[i].tick.timestamp < fed[i].bar.time + I
       /\ \A i, j \in 1 .. Len(fed) :
              (fed[i].bar.time = fed[j].bar.time)
                  <=> (Bucket(fed[i].tick.timestamp, I) = Bucket(fed[j].tick.timestamp, I))
       /\ {b.time : b \in ta.bars} = {fed[i].bar.time : i \in 1 .. Len(fed)}
       /\ Cardinality(ta.bars) = Cardinality({fed[i].bar.time : i \in 1 .. Len(fed)})

\* timestamp 3 with interval 2 gave bar time 2, and a tick of another bucket was added too
C7_Witness ==
    /\ ta.intervalSeconds = 2
    /\ Len(fed) = 3
    /\ fed[1].tick.timestamp = 3 /\ fed[1].bar.time = 2
    /\ fed[2].tick.timestamp = 2 /\ fed[2].bar.time = 2
    /\ fed[3].tick.timestamp = 0 /\ fed[3].bar.time = 0
    /\ Cardinality(ta.bars) = 2

(* C8: when load(ticks, options) returns, from any status, no timer is     *)
(* alive, status is idle, the cursor is 0, the aggregator holds no bar,    *)
(* currentTime = startTime = the smallest timestamp of the argument and    *)
(* endTime = the largest; for an empty array all three are 0               *)
C8_AfterLoad ==
    last.op = "load" =>
        /\ timers = {} /\ playbackTimer = NoTimer
        /\ state.status = "idle"
        /\ currentTickIndex = 0
        /\ aggregator.bars = {} /\ aggregator.currentBarTime = NULL
        /\ state.currentTime = state.startTime
        /\ IF Len(last.arg) > 0
           THEN /\ state.startTime \in Timestamps(last.arg)
                /\ state.endTime \in Timestamps(last.arg)
                /\ \A t \in Timestamps(last.arg) :
                       state.startTime <= t /\ t <= state.endTime
           ELSE state.startTime = 0 /\ state.endTime = 0

\* load was called while playing
C8_Witness ==
    /\ last.op = "load"
    /\ last.from = "playing"
    /\ Len(last.arg) > 1
    /\ state.startTime < state.endTime

(* C9: a timer firing that takes the cursor to the end of the array        *)
(* cancels the timer, sets status ended and currentTime = endTime, and     *)
(* emits ended once, after the last tick; no tick, bar or ended event is   *)
(* emitted by anything but a timer firing, and no timer is alive or fires  *)
(* while status is not playing, so none follows until play() is called     *)
C9_EndOfData ==
    /\ (last.op = "timer" /\ currentTickIndex >= Len(ticks)) =>
           /\ timers = {} /\ playbackTimer = NoTimer
           /\ state.status = "ended"
           /\ state.currentTime = state.endTime
           /\ Len(EventsOfType(emitted, "ended")) = 1
    /\ state.status = "ended" =>
           /\ Len(EventsOfType(events, "ended")) = 1
           /\ events[Len(events)].type = "ended"
           /\ currentTickIndex >= Len(ticks)
    /\ last.op # "timer" => DataEvents(emitted) = <<>>
    /\ last.op = "timer" => last.from = "playing"
    /\ state.status # "playing" => timers = {}

\* the firing that processed the last tick has ended the replay
C9_Witness ==
    /\ last.op = "timer"
    /\ state.status = "ended"
    /\ Len(ticks) = 3
    /\ Len(EventsOfType(emitted, "tick")) >= 2
    /\ emitted[Len(emitted)].type = "ended"

(* C10: pause() called while playing sets status paused and leaves         *)
(* currentTime, the cursor and the bars as they were; while paused they    *)
(* stay so through every step that is not a play, seek, step, stop, load   *)
(* or dispose call: no timer fires, and setSpeed and pause change none     *)
Position == <<state.currentTime, currentTickIndex, aggregator>>

C10_PauseStep ==
    /\ (state.status = "playing" /\ last'.op = "pause") =>
           state'.status = "paused" /\ Position' = Position
    /\ (state.status = "paused"
        /\ last'.op \notin SeekOps \cup {"play", "stop", "load", "dispose"}) =>
           state'.status = "paused" /\ Position' = Position

EngineFields ==
    <<ticks, currentTickIndex, options, state, playbackTimer, lastBarTime,
      aggregator, timers>>

C11_NoOpStep ==
    /\ (last'.op = "play" /\ (state.status = "playing" \/ Len(ticks) = 0)) =>
           EngineFields' = EngineFields /\ emitted' = <<>> /\ caught' = <<>>
    /\ (last'.op = "pause" /\ state.status # "playing") =>
           EngineFields' = EngineFields /\ emitted' = <<>> /\ caught' = <<>>

C11_NoOps == [][C11_NoOpStep]_vars

\* play() was called while playing, in the middle of the data
C11_Witness ==
    /\ last.op = "play"
    /\ last.from = "playing"
    /\ state.status = "playing"
    /\ 0 < currentTickIndex /\ currentTickIndex < Len(ticks)
    /\ Cardinality(timers) = 1
    /\ emitted = <<>>

(* C12: when stop() returns on an engine with ticks loaded, from any       *)
(* status, no timer is alive, the cursor is 0, the aggregator holds no bar *)
(* and getCurrentBar() is null, currentTime = startTime and status = idle  *)
C12_AfterStop ==
    (last.op = "stop" /\ Loaded) =>
        /\ timers = {} /\ playbackTimer = NoTimer
        /\ currentTickIndex = 0
        /\ aggregator.bars = {}
        /\ getCurrentBar(aggregator) = <<>>
        /\ state.currentTime = state.startTime
        /\ state.status = "idle"

\* stop() was called after the replay ended over more than one timestamp
C12_Witness ==
    /\ last.op = "stop"
    /\ last.from = "ended"
    /\ Loaded
    /\ state.startTime < state.endTime

(* C13: when play() returns after being called with status ended, status   *)
(* is playing with a timer alive, currentTime = startTime, the cursor is 0 *)
(* and the aggregator is empty; the next timer firing delivers ticks from  *)
(* the first one on, at least the first                                    *)
C13_PlayFromEnded ==
    (last.op = "play" /\ last.from = "ended") =>
        /\ state.status = "playing"
        /\ playbackTimer # NoTimer /\ timers = {playbackTimer}
        /\ state.currentTime = state.startTime
        /\ currentTickIndex = 0
        /\ aggregator.bars = {} /\ lastBarTime = NULL
        /\ events = <<>> /\ passStart = 0
        /\ \A realTimeElapsed \in 0 .. MaxElapsed :
               LET delivered ==
                       TickEvents(processPlaybackTick(Engine, realTimeElapsed).events)
               IN /\ Len(delivered) >= 1
                  /\ delivered = SubSeq(ticks, 1, Len(delivered))

\* play() was called after a replay of three ticks had ended
C13_Witness ==
    /\ last.op = "play"
    /\ last.from = "ended"
    /\ Len(ticks) = 3
    /\ state.status = "playing"

(* C14: when seekTo(t) returns on an engine with ticks loaded, currentTime *)
(* is t clamped into [startTime, endTime], the cursor is the smallest      *)
(* index whose tick has timestamp >= the clamped value, and the aggregator *)
(* is the one a reset aggregator becomes when fed the ticks before it      *)
C14_SeekTo ==
    (last.op = "seekTo" /\ Loaded) =>
        LET clampedTime == Max(state.startTime, Min(state.endTime, last.arg))
        IN /\ state.currentTime = clampedTime
           /\ \A i \in 1 .. currentTickIndex : ticks[i].timestamp < clampedTime
           /\ currentTickIndex < Len(ticks)
           /\ ticks[currentTickIndex + 1].timestamp >= clampedTime
           /\ aggregator =
                  FeedTicks(NewAggregator(options.barInterval), ticks, 1, currentTickIndex)
           /\ lastBarTime = aggregator.currentBarTime

\* seekTo(2) on ticks stamped 0, 2 and 4 stands on the tick stamped 2
C14_Witness ==
    /\ last.op = "seekTo"
    /\ last.arg = 2
    /\ Len(ticks) = 3
    /\ currentTickIndex = 1
    /\ ticks[2].timestamp = 2
    /\ Cardinality(aggregator.bars) = 1

(* C15: among the events of a playback pass, a bar event follows the tick  *)
(* event of a tick exactly when that tick's bucket differs from the bucket *)
(* of the tick before it in the array; bar events occur nowhere else, and  *)
(* each carries the bar of the previous bucket with its final values       *)
C15_BarOnBucketChange ==
    Loaded =>
        \A i \in 1 .. Len(events) :
            LET k == passStart + Cardinality({j \in 1 .. i : events[j].type = "tick"})
                I == options.barInterval
                changed == /\ k > 1
                           /\ Bucket(ticks[k].timestamp, I) # Bucket(ticks[k - 1].timestamp, I)
            IN /\ events[i].type = "tick" =>
                      (changed <=> (i < Len(events) /\ events[i + 1].type = "bar"))
               /\ events[i].type = "bar" =>
                      /\ i > 1 /\ events[i - 1].type = "tick"
                      /\ changed
                      /\ events[i].bar.time = Bucket(ticks[k - 1].timestamp, I) * I
                      /\ events[i].bar.time # Bucket(ticks[k].timestamp, I) * I
                      /\ events[i].bar \in BarsOfPrefix(ticks, Len(ticks), I)

\* a bar built from two ticks of different prices was emitted when the third
\* tick opened the next bucket
C15_Witness ==
    /\ Len(ticks) = 3
    /\ passStart = 0
    /\ \E i \in 1 .. Len(events) :
           /\ events[i].type = "bar"
           /\ events[i].bar.open # events[i].bar.close
           /\ events[i].bar.volume = 2

(* C16: when setSpeed(s) returns on an engine whose availableSpeeds is not  *)
(* empty, state.speed is s if s is in availableSpeeds, and otherwise an    *)
(* element of availableSpeeds no other element is closer to s than; in     *)
(* both cases it is a member of availableSpeeds; setSpeed(7) with          *)
(* [1, 5, 10] gives 5                                                      *)
SpeedSet == {options.availableSpeeds[i] : i \in 1 .. Len(options.availableSpeeds)}

C16_SetSpeedSnaps ==
    (last.op = "setSpeed" /\ options.availableSpeeds # <<>>) =>
        /\ state.speed \in SpeedSet
        /\ last.arg \in SpeedSet => state.speed = last.arg
        /\ \A a \in SpeedSet : Abs(state.speed - last.arg) <= Abs(a - last.arg)
        /\ (options.availableSpeeds = <<1, 5, 10>> /\ last.arg = 7) => state.speed = 5

\* setSpeed(7) with [1, 5, 10] was called while playing and gave 5
C16_Witness ==
    /\ last.op = "setSpeed"
    /\ last.arg = 7
    /\ last.from = "playing"
    /\ options.availableSpeeds = <<1, 5, 10>>
    /\ state.speed = 5

(* C17: seekTo, seekToPercent, stepForward, stepBackward and setSpeed      *)
(* raise no error to their caller, whatever the argument, the list of      *)
(* availableSpeeds and the tick array the engine was loaded with           *)
C17_NeverThrows ==
    last.op \in SeekOps \cup {"setSpeed"} => thrown = "none"

(* C18: a handler registered with on() that throws is caught by emit for   *)
(* that handler alone: the handler registered after it receives every      *)
(* event the first one threw on, no call raises the error to its caller,   *)
(* the timer stays alive while playing and the cursor advances by one for  *)
(* every tick delivered                                                    *)
HandlerEvents ==
    LET sel == SelectSeq(emitted, LAMBDA ev : ev.via = "on")
    IN [i \in 1 .. Len(sel) |-> [sel[i] EXCEPT !.via = ""]]

C18_HandlerErrorsCaught ==
    /\ thrown = "none"
    /\ caught = HandlerEvents
    /\ ~subscribed => caught = <<>>
    /\ state.status = "playing" => playbackTimer # NoTimer /\ playbackTimer \in timers
    /\ Loaded => Len(EventsOfType(events, "tick")) = currentTickIndex - passStart
    /\ (Loaded /\ last.op = "timer") =>
           Len(EventsOfType(caught, "tick")) = Len(EventsOfType(HandlerEvents, "tick"))

\* a timer firing delivered a tick to the handler that throws, and playback goes on
C18_Witness ==
    /\ last.op = "timer"
    /\ state.status = "playing"
    /\ EventsOfType(caught, "tick") # <<>>
    /\ timers # {}
    /\ currentTickIndex > 0

(* C19, as claimed: a step that takes the status from ended to another     *)
(* status is a play(), seekTo() or seekToPercent() call                    *)
C19_EndedUntilPlayOrSeek_Claimed ==
    (last.from = "ended" /\ state.status # "ended") =>
        last.op \in {"play", "seekTo", "seekToPercent"}

(* C19, amended: a step that takes the status from ended to another status *)
(* is a play, seekTo, seekToPercent, stepForward, stepBackward, stop, load *)
(* or dispose call; pause(), setSpeed() and timer firings leave it ended   *)
C19_EndedUntilCall ==
    (last.from = "ended" /\ state.status # "ended") =>
        last.op \in {"play", "seekTo", "seekToPercent", "stepForward",
                     "stepBackward", "stop", "load", "dispose"}

\* pause() was called after the replay ended, and it is still ended
C19_Witness ==
    /\ last.from = "ended"
    /\ last.op = "pause"
    /\ state.status = "ended"

(* C20: after a timer firing that does not end the replay, currentTime is  *)
(* min(targetTime, endTime), targetTime being the currentTime before the   *)
(* firing plus the real time elapsed times the speed, also when the firing *)
(* processed no tick                                                       *)
C20_ClockStep ==
    (last'.op = "timer" /\ state'.status # "ended") =>
        state'.currentTime =
            Min(state.currentTime + last'.arg * state.speed, state.endTime)

C20_ClockFollowsTarget == [][C20_ClockStep]_vars

(* C21: while the engine plays forward only the bar of the latest bucket   *)
(* is open: every other bar the aggregator holds is of an earlier bucket   *)
(* and has its final values, and every bar delivered by a bar event since  *)
(* the last seek, stop or load is still held with the values delivered     *)
C21_ClosedBarsFinal ==
    Loaded =>
        /\ \A b \in aggregator.bars :
               b.time # aggregator.currentBarTime =>
                   /\ b.time < aggregator.currentBarTime
                   /\ b \in BarsOfPrefix(ticks, Len(ticks), options.barInterval)
        /\ \A i \in 1 .. Len(events) :
               events[i].type = "bar" => events[i].bar \in aggregator.bars

\* a bar was delivered and a tick was processed after that: both bars are held
C21_Witness ==
    /\ last.op = "timer"
    /\ \E i, j \in 1 .. Len(events) :
           /\ i < j
           /\ events[i].type = "bar"
           /\ events[j].type = "tick"
    /\ Cardinality(aggregator.bars) = 2

\* the publishers an updateOrderBook call names, none for any other call
Mentioned(call) ==
    IF call.op = "updateOrderBook" /\ call.arg # <<>>
    THEN {call.arg[1][i].publisher_id : i \in 1 .. Len(call.arg[1])}
    ELSE {}

\* the last snapshot of publisher p in the array
LastSnapshotOf(exchanges, p) ==
    exchanges[CHOOSE i \in 1 .. Len(exchanges) :
                  /\ exchanges[i].publisher_id = p
                  /\ \A j \in (i + 1) .. Len(exchanges) : exchanges[j].publisher_id # p]

\* the numbers of a snapshot, NaN for those it lacks
NumbersOf(ex) ==
    [f \in {"bid_price", "ask_price", "bid_size", "ask_size"} |->
        IF f \in DOMAIN ex THEN ex[f] ELSE NaN]

C22_UpdateStep ==
    bookCall'.op = "updateOrderBook" =>
        /\ DOMAIN exchangeState' = DOMAIN exchangeState \cup Mentioned(bookCall')
        /\ \A p \in Mentioned(bookCall') :
               LET ex == LastSnapshotOf(bookCall'.arg[1], p)
                   entry == exchangeState'[p]
               IN /\ entry.publisher_id = p
                  /\ \A f \in DOMAIN NumbersOf(ex) : entry[f] = NumbersOf(ex)[f]
        /\ \A p \in DOMAIN exchangeState \ Mentioned(bookCall') :
               exchangeState'[p] = exchangeState[p]
        /\ Mentioned(bookCall') = {} => exchangeState' = exchangeState

(* C22: updateOrderBook(exchanges) stores, for every publisher the array   *)
(* names, the entry of that publisher's last snapshot in the array, whole  *)
(* (a number the snapshot lacks is NaN, not the number stored before);     *)
(* the entries of the other publishers stay as they were, and nothing      *)
(* changes when the array is missing or empty                              *)
C22_UpdateReplacesEntries == [][C22_UpdateStep]_vars

\* an update whose array names one publisher twice, with different quotes,
\* while the book holds another publisher's entry
C22_Witness ==
    /\ bookCall.op = "updateOrderBook"
    /\ bookCall.arg # <<>>
    /\ Len(bookCall.arg[1]) = 2
    /\ bookCall.arg[1][1].publisher_id = bookCall.arg[1][2].publisher_id
    /\ bookCall.arg[1][1] # bookCall.arg[1][2]
    /\ DOMAIN exchangeState # Mentioned(bookCall)

\* the levels of one side that the stored entries give for a minimum size
LevelsOf(side, minSize) ==
    {[publisher_id |-> p,
      price |-> IF side = "bid" THEN exchangeState[p].bid_price
                ELSE exchangeState[p].ask_price,
      size |-> IF side = "bid" THEN exchangeState[p].bid_size
               ELSE exchangeState[p].ask_size] :
        p \in {q \in DOMAIN exchangeState :
                 LET price == IF side = "bid" THEN exchangeState[q].bid_price
                              ELSE exchangeState[q].ask_price
                     size == IF side = "bid" THEN exchangeState[q].bid_size
                             ELSE exchangeState[q].ask_size
                 IN /\ price # NaN /\ price > 0
                    /\ size # NaN /\ size >= minSize}}

\* the list holds exactly the levels of the set, each once
ListsExactly(list, levels) ==
    /\ {list[i] : i \in 1 .. Len(list)} = levels
    /\ Len(list) = Cardinality(levels)
    /\ \A i, j \in 1 .. Len(list) :
           i # j => list[i].publisher_id # list[j].publisher_id

(* C23: getOrderBook(minSize) returns as bids exactly the stored entries   *)
(* with bid price > 0 and bid size >= minSize, best (highest) price first, *)
(* and as asks exactly those with ask price > 0 and ask size >= minSize,   *)
(* lowest price first, one bid and one ask per publisher at most; with     *)
(* the single entry (publisher 1, bid 10 size 100, ask 10.5 size 50)       *)
(* stored, getOrderBook(0) returns that one bid and that one ask           *)
C23_OrderBookView ==
    bookCall.op = "getOrderBook" =>
        LET minSize == bookCall.arg[1]
        IN /\ ListsExactly(returned.bids, LevelsOf("bid", minSize))
           /\ ListsExactly(returned.asks, LevelsOf("ask", minSize))
           /\ \A i, j \in 1 .. Len(returned.bids) :
                  i < j => returned.bids[i].price >= returned.bids[j].price
           /\ \A i, j \in 1 .. Len(returned.asks) :
                  i < j => returned.asks[i].price <= returned.asks[j].price
           /\ (/\ minSize = 0
               /\ DOMAIN exchangeState = {1}
               /\ exchangeState[1] = [publisher_id |-> 1, bid_price |-> 20,
                                      bid_size |-> 100, ask_price |-> 21,
                                      ask_size |-> 50])
              => /\ returned.bids = <<[publisher_id |-> 1, price |-> 20, size |-> 100]>>
                 /\ returned.asks = <<[publisher_id |-> 1, price |-> 21, size |-> 50]>>

\* a book of two publishers read with a minimum size both meet on either
\* side: two bids and two asks of different prices are returned
C23_Witness ==
    /\ bookCall.op = "getOrderBook"
    /\ bookCall.arg[1] = 50
    /\ DOMAIN exchangeState = Publishers
    /\ Len(returned.bids) = 2
    /\ returned.bids[1].price > returned.bids[2].price
    /\ Len(returned.asks) = 2
    /\ returned.asks[1].price < returned.asks[2].price

C24_KeepStep ==
    IF bookCall'.op = "clearOrderBook"
    THEN DOMAIN exchangeState' = {}
    ELSE \A p \in DOMAIN exchangeState :
             /\ p \in DOMAIN exchangeState'
             /\ p \notin Mentioned(bookCall') => exchangeState'[p] = exchangeState[p]

(* C24: no call but clearOrderBook() removes an entry, and that call       *)
(* removes them all: through every update and read a stored publisher      *)
(* stays stored, with the values last written for it as long as no update  *)
(* names it                                                                *)
C24_EntriesStayUntilClear == [][C24_KeepStep]_vars

\* an update that names one publisher while the book holds both
C24_Witness ==
    /\ bookCall.op = "updateOrderBook"
    /\ Cardinality(Mentioned(bookCall)) = 1
    /\ DOMAIN exchangeState = Publishers

(* C25: a buffer whose first four bytes are not 'TICK' is refused by the   *)
(* decoder of either format: an error is thrown and no row is returned     *)
C25_BadMagicFails ==
    (parsed.by # "none" /\ buffer.magic # TICK) =>
        /\ parsed.error # "none"
        /\ parsed.data = <<>>

\* the sum of the deltas of rows 1 .. i
RECURSIVE SumDeltas(_, _)
SumDeltas(deltas, i) == IF i = 0 THEN 0 ELSE SumDeltas(deltas, i - 1) + deltas[i]

\* microseconds in one unit of the deltas of the format that was decoded
DeltaUnit == IF parsed.by = "parseBinaryDataV3" THEN 1000 ELSE 1

(* C26: in the rows decoded from either format, the timestamp of row i is  *)
(* the initial timestamp plus the sum of the deltas of the rows up to i,   *)
(* so the timestamps never decrease when no delta is negative              *)
C26_CumulativeTimestamps ==
    (parsed.by # "none" /\ parsed.error = "none") =>
        /\ Len(parsed.data) = Len(buffer.deltas)
        /\ \A i \in 1 .. Len(parsed.data) :
               parsed.data[i].timestamp =
                   TimeValue(buffer.initialTimestampUs
                             + DeltaUnit * SumDeltas(buffer.deltas, i))
        /\ (\A i \in 1 .. Len(buffer.deltas) : buffer.deltas[i] >= 0) =>
               \A i, j \in 1 .. Len(parsed.data) :
                   i < j => parsed.data[i].timestamp <= parsed.data[j].timestamp

(* C27: once playing, with the timer firing again and again a positive     *)
(* time apart and no other call but play(), the engine reaches status      *)
(* ended, however small the time added per firing                          *)
C27_PlaybackEnds == (state.status = "playing") ~> (state.status = "ended")

(* C28: between calls on an engine that has not been disposed, the cursor  *)
(* is within 0 .. number of ticks, every tick before it has timestamp <=   *)
(* currentTime and every tick at or after it has timestamp >= currentTime  *)
C28_CursorSplitsAtCurrentTime ==
    subscribed =>
        /\ 0 <= currentTickIndex /\ currentTickIndex <= Len(ticks)
        /\ \A i \in 1 .. Len(ticks) :
               /\ i <= currentTickIndex => ticks[i].timestamp <= state.currentTime
               /\ i > currentTickIndex => ticks[i].timestamp >= state.currentTime

\* playback stands between two ticks, strictly after one and before the next
C28_Witness ==
    /\ last.op = "timer"
    /\ 0 < currentTickIndex /\ currentTickIndex < Len(ticks)
    /\ ticks[currentTickIndex].timestamp < state.currentTime
    /\ state.currentTime < ticks[currentTickIndex + 1].timestamp

(* C29: with handlers that do not call back into the engine, between calls *)
(* an interval timer is alive exactly when status is playing               *)
C29_TimerIffPlaying ==
    (timers # {}) <=> (state.status = "playing")

\* playing was resumed after a pause: a timer is alive again
C29_Witness ==
    /\ last.op = "play"
    /\ last.from = "paused"
    /\ state.status = "playing"
    /\ timers # {}

(* C30: in a timer firing in which the tick handler calls pause() or       *)
(* stop(), the tick the handler was given is the only one delivered and no *)
(* bar event follows it; when the firing is over the status is the one the *)
(* handler's call set, and after stop() the cursor is 0, the aggregator    *)
(* empty and currentTime = startTime                                       *)
C30_HandlerCallEndsFiring ==
    (last.op = "timer" /\ reaction # "none"
     /\ EventsOfType(HandlerEvents, "tick") # <<>>) =>
        /\ Len(EventsOfType(HandlerEvents, "tick")) = 1
        /\ EventsOfType(HandlerEvents, "bar") = <<>>
        /\ reaction = "pause" => state.status = "paused"
        /\ reaction = "stop" =>
               /\ state.status = "idle"
               /\ currentTickIndex = 0
               /\ aggregator.bars = {}
               /\ state.currentTime = state.startTime

(* C31: when a callback of the load options throws during playback, the    *)
(* tick being processed still counts as processed: between calls the tick  *)
(* events delivered since the start of the pass are the ticks before the   *)
(* cursor, each once, and the aggregator holds those ticks once each       *)
C31_OptionErrorKeepsPlayback ==
    (faulty # "none" /\ Loaded /\ passStart = 0) =>
        /\ TickEvents(events) = SubSeq(ticks, 1, currentTickIndex)
        /\ aggregator.bars = BarsOfPrefix(ticks, currentTickIndex, options.barInterval)

(* C32: seekTo, seekToPercent, stepForward and stepBackward leave the      *)
(* status as it was, except that ended becomes paused; after one of them   *)
(* made while playing exactly one timer runs, the one the engine holds;    *)
(* and the status becomes ended only from playing, by a timer firing       *)
C32_SeekKeepsStatus ==
    /\ last.op \in SeekOps =>
           /\ \/ state.status = last.from
              \/ last.from = "ended" /\ state.status = "paused"
           /\ last.from \in {"idle", "paused", "playing"} => state.status = last.from
           /\ last.from = "playing" =>
                  /\ Cardinality(timers) = 1
                  /\ playbackTimer \in timers
    /\ (state.status = "ended" /\ last.from # "ended") =>
           /\ last.op = "timer"
           /\ last.from = "playing"

\* a step back was made from ended: the status is paused
C32_Witness ==
    /\ last.op = "stepBackward"
    /\ last.arg = 1
    /\ last.from = "ended"
    /\ state.status = "paused"

\* the buckets of ticks[from .. to]
BucketsOf(tks, from, to, intervalSeconds) ==
    {Bucket(tks[i].timestamp, intervalSeconds) : i \in from .. to}

\* the bar events of the pass that has just ended, in order
BarEvents == EventsOfType(events, "bar")

PassEnded == Loaded /\ last.op = "timer" /\ state.status = "ended"

(* C33 as claimed: a playback pass that reaches the end, over ticks that   *)
(* span k buckets, has emitted exactly k - 1 bar events, wherever the pass *)
(* started                                                                 *)
C33_BarsOfPass_Claimed ==
    PassEnded =>
        Len(BarEvents) =
            Cardinality(BucketsOf(ticks, passStart + 1, Len(ticks),
                                  options.barInterval)) - 1

(* C33: a playback pass from the first tick to the end, over ticks that    *)
(* span k buckets, emits exactly k - 1 bar events, with strictly           *)
(* increasing bar times, each right after the tick event of the tick that  *)
(* opened the next bucket; no bar event carries the last bucket, and the  *)
(* pass closes with the ended event.  A pass started by a seek past the    *)
(* first tick emits one bar event more, for the bucket of the tick before  *)
(* the cursor, when its first tick opens a new bucket                      *)
C33_BarsOfPass ==
    PassEnded =>
        LET I == options.barInterval
            k == Cardinality(BucketsOf(ticks, passStart + 1, Len(ticks), I))
            carried == IF passStart > 0
                          /\ Bucket(ticks[passStart].timestamp, I)
                                 # Bucket(ticks[passStart + 1].timestamp, I)
                       THEN 1 ELSE 0
        IN /\ Len(BarEvents) = k - 1 + carried
           /\ passStart = 0 => Len(BarEvents) = k - 1
           /\ \A i, j \in 1 .. Len(BarEvents) :
                  i < j => BarEvents[i].bar.time < BarEvents[j].bar.time
           /\ \A i \in 1 .. Len(events) :
                  events[i].type = "bar" =>
                      /\ i > 1
                      /\ events[i - 1].type = "tick"
                      /\ events[i].bar.time
                             < Bucket(events[i - 1].tick.timestamp, I) * I
           /\ \A i \in 1 .. Len(BarEvents) :
                  BarEvents[i].bar.time # Bucket(ticks[Len(ticks)].timestamp, I) * I
           /\ events[Len(events)].type = "ended"

\* a pass from the first tick over three buckets has ended: two bar events
C33_Witness ==
    /\ PassEnded
    /\ passStart = 0
    /\ Cardinality(BucketsOf(ticks, 1, Len(ticks), options.barInterval)) = 3
    /\ Len(BarEvents) = 2

C34_SetSpeedStep ==
    (last'.op = "setSpeed" /\ state.status = "playing") =>
        /\ state'.status = "playing"
        /\ state'.currentTime = state.currentTime
        /\ state'.startTime = state.startTime
        /\ state'.endTime = state.endTime
        /\ currentTickIndex' = currentTickIndex
        /\ ticks' = ticks
        /\ aggregator' = aggregator
        /\ lastBarTime' = lastBarTime
        /\ Cardinality(timers') = 1
        /\ playbackTimer' \in timers'

(* C34: setSpeed called while playing changes nothing but the speed: the   *)
(* status stays playing, currentTime, the cursor, the ticks and the bars   *)
(* are as before the call, and exactly one timer runs afterwards, the one  *)
(* the engine holds                                                        *)
C34_SetSpeedKeepsPosition == [][C34_SetSpeedStep]_vars

\* setSpeed(7) was called in the middle of a playback and changed the speed to 5
C34_Witness ==
    /\ last.op = "setSpeed"
    /\ last.from = "playing"
    /\ last.arg = 7
    /\ state.speed = 5
    /\ state.status = "playing"
    /\ 0 < currentTickIndex /\ currentTickIndex < Len(ticks)
    /\ Cardinality(timers) = 1

\* the ticks of tks stamped t, in the order they have in tks
StampedAt(tks, t) == SelectSeq(tks, LAMBDA tick : tick.timestamp = t)

\* the price of the tick that comes last in the caller's array among the
\* ticks with the latest timestamp of the bucket that starts at barTime
LastOfInput(barTime, intervalSeconds) ==
    LET inBar == {i \in 1 .. Len(input) :
                    Bucket(input[i].timestamp, intervalSeconds) * intervalSeconds
                        = barTime}
        latest == CHOOSE i \in inBar :
                      \A j \in inBar :
                          \/ input[j].timestamp < input[i].timestamp
                          \/ input[j].timestamp = input[i].timestamp /\ j <= i
    IN input[latest].price

(* C35: load() keeps the ticks in ascending order of timestamp, ticks of   *)
(* one timestamp in the order the caller's array had them; playback        *)
(* delivers them in that order; and at the end the close of every bar is   *)
(* the price of the tick that came last in the caller's array among the    *)
(* ticks of the bar's latest timestamp                                     *)
C35_StableOrder ==
    Loaded =>
        /\ Len(ticks) = Len(input)
        /\ \A i, j \in 1 .. Len(ticks) :
               i < j => ticks[i].timestamp <= ticks[j].timestamp
        /\ \A t \in TimeStamps : StampedAt(ticks, t) = StampedAt(input, t)
        /\ TickEvents(events) = SubSeq(ticks, 1, currentTickIndex)
        /\ state.status = "ended" =>
               \A b \in aggregator.bars :
                   b.close = LastOfInput(b.time, options.barInterval)

\* the array had two ticks stamped 2, of different prices, with an earlier
\* tick between them; playback has ended and the bar closed at the second
C35_Witness ==
    /\ state.status = "ended"
    /\ Len(input) = 3
    /\ input[1] = [timestamp |-> 2, price |-> 1, volume |-> 1]
    /\ input[2].timestamp = 0
    /\ input[3] = [timestamp |-> 2, price |-> 2, volume |-> 1]
    /\ \E b \in aggregator.bars : b.time = 0 /\ b.close = 2

\* dispose() has been called on an engine that load() had given its options
DisposedAfterLoad == ~subscribed /\ options \in Options

(* C36: once dispose() has been called no call and no timer firing invokes *)
(* a callback again, neither a handler registered with on() nor a callback *)
(* of the load options; no timer is alive, so no firing processes a tick;  *)
(* the status is idle and getCurrentBar() is null                          *)
C36_DisposedIsSilent ==
    DisposedAfterLoad =>
        /\ emitted = <<>>
        /\ timers = {}
        /\ state.status = "idle"
        /\ getCurrentBar(aggregator) = <<>>

C37_SetIntervalStep ==
    taCall'.op = "setInterval" =>
        IF taCall'.arg <= 0
        THEN /\ taCall'.error = "Interval must be positive"
             /\ ta' = ta
        ELSE /\ taCall'.error = "none"
             /\ ta'.intervalSeconds = taCall'.arg
             /\ ta'.bars = {}
             /\ getCurrentBar(ta') = <<>>
             /\ getAllBars(ta') = <<>>

(* C37: setInterval(s) with s <= 0 throws 'Interval must be positive' and  *)
(* leaves the interval and the bars as they were; with s > 0 it sets the   *)
(* interval to s and leaves the aggregator with no bars and no current bar *)
C37_SetInterval == [][C37_SetIntervalStep]_vars

\* setInterval(0) was refused by an aggregator that holds two bars
C37_Witness ==
    /\ taCall.op = "setInterval"
    /\ taCall.arg = 0
    /\ taCall.error = "Interval must be positive"
    /\ Cardinality(ta.bars) = 2

(* C38: every bar the aggregator holds has low <= open <= high and         *)
(* low <= close <= high, whatever ticks were added, in whatever order of   *)
(* timestamps, and whatever resets were made                               *)
C38_BarsWellFormed ==
    \A b \in ta.bars :
        /\ b.low <= b.open /\ b.open <= b.high
        /\ b.low <= b.close /\ b.close <= b.high

\* ticks were added against the order of their timestamps, and a bar opened
\* at its high and stands at its low
C38_Witness ==
    /\ Len(fed) = 3
    /\ fed[2].tick.timestamp < fed[1].tick.timestamp
    /\ \E b \in ta.bars :
           /\ b.low < b.high
           /\ b.open = b.high
           /\ b.close = b.low

-----------------------------------------------------------------------------
(* SessionDataProvider: who is handed the bars                              *)

\* the bars handed to a callback during the last call, in order
BarsHandedTo(cb) ==
    LET mine == SelectSeq(barCalls, LAMBDA c : c.to = cb)
    IN [i \in DOMAIN mine |-> mine[i].args[1]]

\* the bars the engine completed during the last call, in order
BarsCompleted ==
    LET bars == OptionBars(emitted)
    IN [i \in DOMAIN bars |-> ohlcvBar(bars[i].bar)]

\* C39: once subscribe(symbol, interval, cb) has returned for a symbol with
\* cached ticks, whether or not an earlier subscription was active when it was
\* called, every bar the engine completes is handed to cb, until the function
\* subscribe returned is called
C39_SubscriberGetsBars ==
    watch.subscriber # "null" => BarsHandedTo(watch.subscriber) = BarsCompleted

\* C40: after loadSession the first bar handed to the callback registered with
\* setBarCallback comes with isFirstBar = true as second argument and every
\* later bar with isFirstBar = false, until a session is loaded again
C40_FirstBarFlag ==
    \A i \in DOMAIN barCalls :
        barCalls[i].to = "chart" =>
            /\ Len(barCalls[i].args) = 2
            /\ barCalls[i].args[2] = barCalls[i].first

=============================================================================
